---- MODULE Spec2Model ----
(***************************************************************************)
(* A model of lorem-video: the filename specification language (parser),   *)
(* the transcode orchestrator (service), artifact discovery (parser), the  *)
(* request handler and the HLS virtual-live engine (rest), and rendition   *)
(* and HLS pregeneration at process start (service).                       *)
(*                                                                         *)
(* Strings are sequences of one-character strings, so that splitting,      *)
(* suffix tests, number formatting and number parsing are computed as the  *)
(* Go code computes them.                                                  *)
(***************************************************************************)
EXTENDS Integers, Sequences, FiniteSets, TLC

VARIABLES
    \* ---- parser: one GenerateFilename / ParseFilename pipeline
    spec,          \* the VideoSpec handed to GenerateFilename
    filename,      \* the request token / rendered filename
    parsed,        \* result of ParseFilename: [err, spec]
    regenerated,   \* GenerateFilename of the parsed spec
    pc,            \* position of the pipeline
    \* ---- service: Transcode calls on one canonical output path
    file,          \* the file at fullOutputPath: [exists, size, writer]
    tpc,           \* per call: position of the call and of its goroutine
    statSize,      \* per call: what os.Stat saw (NoStat: no file)
    removed,       \* per call: os.Remove was called on the undersized file
    encoderStarted,\* per call: the ffmpeg process was started
    encoderExit,   \* per call: "none", "ok" or "fail"
    sent,          \* per call: values sent so far, [result, err]
    resultCh,      \* per call: [buf, closed]
    errCh,         \* per call: [buf, closed]
    ctxDone,       \* per call: the caller's context is cancelled
    got,           \* per call: what the caller's select received
    killed,        \* per call: ctx became done while ffmpeg ran; os/exec killed it
    \* ---- rest: the HLS virtual-live engine on one rendition
    now,           \* time.Now().Unix()
    videoNameDir,  \* <stream-root>/<videoName> exists
    resolutionDir, \* <stream-root>/<videoName>/<tier> exists
    dirFiles,      \* the names of the files in the rendition directory
    hlsDone,       \* the HLS encode of the rendition has ended
    request,       \* the last request: [kind, name]
    status,        \* the HTTP status of the last response
    playlist,      \* the body of the last media-playlist response (lines)
    served,        \* the file whose bytes the last segment response carried
    servedAt,      \* the clock value generateMediaPlaylist read (0: none)
    seenDir,       \* whether the rendition directory existed at that time
    seenCount,     \* the number of chunk files it held at that time
    chunkFile,     \* the chunk file name the segment handler built, if it did
    \* ---- parser / rest: artifact discovery on ServeVideo
    pregenCount,   \* per clip: catalog entries present in <video-root>/<clip>/
    tmpFiles,      \* the names of the files in <scratch-root>
    findFilename,  \* the canonical filename of the last ServeVideo request
    findName,      \* the Name of its resolved spec
    heldBy,        \* the clips whose directory held that file at that time
    inTmp,         \* whether <scratch-root> held that file at that time
    checked,       \* the paths FindExistingVideo passed to os.Stat, in order
    existingPath,  \* what FindExistingVideo returned
    rootFiles,     \* the files directly under <video-root>
    created,       \* the artifact the last entry point created: [by, name, path]
    asked,         \* [clip, file] of the pregenerated artifact the last request named
    \* ---- rest / service: concurrent ServeVideo requests for one filename
    pregenFile,    \* the file at <video-root>/<clip>/<filename>
    scratch,       \* the file at <scratch-root>/<filename>
    rqPc,          \* per request: position of the handler and its encode
    rqSaw,         \* per request: the file FindExistingVideo found (or NoArtifact)
    rqStat,        \* per request: the file Transcode's os.Stat found
    rqStarted,     \* per request: its own ffmpeg process was started
    rqServed,      \* per request: what the response carried
    rqStatus,      \* per request: the status code of the response, 0 before it
    \* ---- service: rendition pregeneration at process start
    inputFiles,    \* the source clips found at startup, in directory order
    pgRun,         \* the number of the process start
    pgClip,        \* PregenerateAllVideos: index of the clip being processed
    pgEntry,       \* PregenerateVideos: index of the catalog entry
    pgPc,          \* position of the pregeneration task
    pgCtx,         \* the 15-minute deadline of the task has passed
    disk,          \* per clip and entry: the file in <video-root>/<clip>/
    jobPc,         \* per clip and entry: position of its Transcode goroutine
    jobStarted,    \* per clip and entry: ffmpeg was started in this run
    jobExit,       \* per clip and entry: "none", "hit", "ok" or "fail"
    jobSaw,        \* per clip and entry: the case the caller's select took
    prevFailed,    \* per clip and entry: its encode failed in an earlier run
    \* ---- service: HLS pregeneration of one clip at process start
    probe,         \* what ffprobe prints for the clip
    hpRun,         \* the number of the process start
    hpPc,          \* position of PregenerateHLS
    hpCtx,         \* the 15-minute deadline of the task has passed
    isVertical,    \* PregenerateHLS: the orientation it settled on
    hlsResolutions,\* PregenerateHLS: tier name -> resolution to encode
    tiersLeft,     \* tier names the range over hlsResolutions has not reached
    resName,       \* the tier name of the current iteration
    streamFiles,   \* per tier: the paths under <stream-root>/<clip>/<tier>/
    masterPlaylist,\* <stream-root>/<clip>/<master playlist> exists
    encodedWith,   \* per tier: the resolution TranscodeHLS was called with in this run
    tierExit,      \* per tier: "none", "skipped", "ok" or "fail" in this run
    hjPc,          \* position of the TranscodeHLS goroutine of the current tier
    hjExit,        \* how its cmd.Run ended: "none", "ok" or "fail"
    prevOk,        \* the previous process start pregenerated every tier successfully
    \* ---- parser: ParseFilename on filenames built from tokens
    tkParts,       \* the underscore-separated parts of the base name
    tkExt,         \* what follows the base name: "", "." or a dot and an extension
    tkParsed,      \* ParseFilename of the filename: [err, spec]
    tkOrder,       \* a rearrangement of tkParts
    tkReordered,   \* ParseFilename of the rearranged filename: [err, spec]
    tkEncoder,     \* the encoder name Transcode looks up for the parsed audio codec
    tkVariant,     \* [parts, ext] of a second request token for the same video
    tkKeys,        \* the cache keys ServeVideo computes for the two tokens
    tkPc,          \* position of the caller
    \* ---- config and service: defaults, filename and encoder arguments of a spec
    defaultSpec,   \* the package variable config.DefaultVideoSpec
    fsInput,       \* the config.VideoSpec handed in
    fsResolved,    \* ApplyDefaultVideoSpec(fsInput)
    fsAgain,       \* ApplyDefaultVideoSpec(fsResolved)
    fsFilename,    \* GenerateFilename(fsInput)
    fsArgs,        \* the ffmpeg arguments Transcode builds for fsResolved
    fsSource,      \* the frame size of the source clip ffmpeg reads
    fsOutput,      \* the frame size of the video stream ffmpeg writes
    fsPc,          \* position of the caller
    \* ---- rest: one ServeVideo miss, streamPartialFile beside the encoder
    stFinal,       \* the length of the file a successful encode leaves
    stExists,      \* ffmpeg has created <scratch-root>/<filename>
    stLen,         \* bytes ffmpeg has written to it so far
    stExit,        \* how ffmpeg ended: "none", "ok", "failed", "killed"
    stGo,          \* position of Transcode's goroutine
    stResultCh,    \* [buf, closed] of the channel the handler was given
    stErrCh,       \* [buf, closed] of the channel the handler was given
    stGone,        \* the client has disconnected: r.Context() is done
    stPc,          \* position of streamPartialFile
    stTries,       \* failed os.Open attempts so far
    stLastPos,     \* lastPos
    stSent,        \* the file offsets of the bytes written to the response, in order
    stReturn,      \* the branch streamPartialFile returned from
    \* ---- service: StartupPregeneration, both phases under one context
    suCtx,         \* the context of the background task: "live" or "done"
    suPhase,       \* "videos" (PregenerateAllVideos), "hls" (PregenerateAllHLS), "returned"
    suClip,        \* index of the source file the loop is at
    suItem,        \* index of the catalog entry or tier the inner loop is at
    suPc,          \* "start": about to run the item, "wait": in the select
    suEnc,         \* the item's encode: "none", "hit", "running", "ok", "failed", "killed"
    suClosed,      \* the item's goroutine has returned and closed both channels
    suDisk,        \* the <<phase, clip, item>> whose artifact was on disk at the start
    suMissed,      \* the current clip met, after the deadline, an item still to encode
    suLast,        \* how the last clip ended: [how, missed]
    suLate         \* an encode has completed successfully after the deadline

parserVars == <<spec, filename, parsed, regenerated, pc>>

serviceVars == <<file, tpc, statSize, removed, encoderStarted, encoderExit,
                 sent, resultCh, errCh, ctxDone, got, killed>>

hlsVars == <<now, videoNameDir, resolutionDir, dirFiles, hlsDone, request,
             status, playlist, served, servedAt, seenDir, seenCount, chunkFile>>

findVars == <<pregenCount, tmpFiles, findFilename, findName, heldBy, inTmp,
              checked, existingPath, rootFiles, created, asked>>

requestVars == <<pregenFile, scratch, rqPc, rqSaw, rqStat, rqStarted, rqServed,
                 rqStatus>>

pregenVars == <<inputFiles, pgRun, pgClip, pgEntry, pgPc, pgCtx, disk, jobPc, jobStarted,
                jobExit, jobSaw, prevFailed>>

tierVars == <<probe, hpRun, hpPc, hpCtx, isVertical, hlsResolutions, tiersLeft,
              resName, streamFiles, masterPlaylist, encodedWith, tierExit, hjPc,
              hjExit, prevOk>>

tokenVars == <<tkParts, tkExt, tkParsed, tkOrder, tkReordered, tkEncoder,
               tkVariant, tkKeys, tkPc>>

fieldVars == <<defaultSpec, fsInput, fsResolved, fsAgain, fsFilename, fsArgs,
               fsSource, fsOutput, fsPc>>

streamVars == <<stFinal, stExists, stLen, stExit, stGo, stResultCh, stErrCh,
                stGone, stPc, stTries, stLastPos, stSent, stReturn>>

startupVars == <<suCtx, suPhase, suClip, suItem, suPc, suEnc, suClosed, suDisk,
                 suMissed, suLast, suLate>>

vars == <<parserVars, serviceVars, hlsVars, findVars, requestVars, pregenVars,
          tierVars, tokenVars, fieldVars, streamVars, startupVars>>

\* what the steps of one component leave alone
notParserVars == <<serviceVars, hlsVars, findVars, requestVars, pregenVars,
    tierVars,
    tokenVars, fieldVars, streamVars, startupVars>>
notServiceVars == <<parserVars, hlsVars, findVars, requestVars, pregenVars,
    tierVars,
    tokenVars, fieldVars, streamVars, startupVars>>
notHLSVars == <<parserVars, serviceVars, findVars, requestVars, pregenVars,
    tierVars,
    tokenVars, fieldVars, streamVars, startupVars>>
notFindVars == <<parserVars, serviceVars, hlsVars, requestVars, pregenVars,
    tierVars,
    tokenVars, fieldVars, streamVars, startupVars>>
notRequestVars == <<parserVars, serviceVars, hlsVars, findVars, pregenVars,
    tierVars,
    tokenVars, fieldVars, streamVars, startupVars>>
notTierVars == <<parserVars, serviceVars, hlsVars, findVars, requestVars,
    pregenVars,
    tokenVars, fieldVars, streamVars, startupVars>>
notPregenVars == <<parserVars, serviceVars, hlsVars, findVars, requestVars,
    tierVars,
    tokenVars, fieldVars, streamVars, startupVars>>
notTokenVars == <<parserVars, serviceVars, hlsVars, findVars, requestVars,
    pregenVars, tierVars, fieldVars, streamVars, startupVars>>
notFieldVars == <<parserVars, serviceVars, hlsVars, findVars, requestVars,
    pregenVars, tierVars, tokenVars, streamVars, startupVars>>
notStreamVars == <<parserVars, serviceVars, hlsVars, findVars, requestVars,
    pregenVars, tierVars, tokenVars, fieldVars, startupVars>>
notStartupVars == <<parserVars, serviceVars, hlsVars, findVars, requestVars,
    pregenVars, tierVars, tokenVars, fieldVars, streamVars>>

-----------------------------------------------------------------------------
(* Strings                                                                 *)

EmptyString == << >>

Digit == {"0", "1", "2", "3", "4", "5", "6", "7", "8", "9"}

DigitValue(c) ==
    CASE c = "0" -> 0 [] c = "1" -> 1 [] c = "2" -> 2 [] c = "3" -> 3
      [] c = "4" -> 4 [] c = "5" -> 5 [] c = "6" -> 6 [] c = "7" -> 7
      [] c = "8" -> 8 [] c = "9" -> 9

DigitChar(d) ==
    CASE d = 0 -> "0" [] d = 1 -> "1" [] d = 2 -> "2" [] d = 3 -> "3"
      [] d = 4 -> "4" [] d = 5 -> "5" [] d = 6 -> "6" [] d = 7 -> "7"
      [] d = 8 -> "8" [] d = 9 -> "9"

\* \d+ : one or more ASCII digits
AllDigits(s) == Len(s) > 0 /\ \A i \in 1..Len(s) : s[i] \in Digit

HasSuffix(s, suffix) ==
    /\ Len(s) >= Len(suffix)
    /\ SubSeq(s, Len(s) - Len(suffix) + 1, Len(s)) = suffix

HasPrefix(s, prefix) ==
    /\ Len(s) >= Len(prefix)
    /\ SubSeq(s, 1, Len(prefix)) = prefix

TrimSuffix(s, suffix) ==
    IF HasSuffix(s, suffix) THEN SubSeq(s, 1, Len(s) - Len(suffix)) ELSE s

TrimPrefix(s, prefix) ==
    IF HasPrefix(s, prefix) THEN SubSeq(s, Len(prefix) + 1, Len(s)) ELSE s

\* strings.ToLower on the characters the model uses
ToLowerChar(c) ==
    CASE c = "M" -> "m" [] c = "P" -> "p" [] c = "W" -> "w" [] OTHER -> c

ToLower(s) == [i \in 1..Len(s) |-> ToLowerChar(s[i])]

RECURSIVE DigitsValue(_)
DigitsValue(s) ==
    IF Len(s) = 0 THEN 0
    ELSE 10 * DigitsValue(SubSeq(s, 1, Len(s) - 1)) + DigitValue(s[Len(s)])

\* strconv.Atoi: an optional sign, then one or more digits
Atoi(s) ==
    LET signed == Len(s) > 0 /\ s[1] \in {"+", "-"}
        body   == IF signed THEN Tail(s) ELSE s
    IN  IF AllDigits(body)
        THEN [ok |-> TRUE,
              val |-> IF signed /\ s[1] = "-" THEN 0 - DigitsValue(body)
                      ELSE DigitsValue(body)]
        ELSE [ok |-> FALSE, val |-> 0]

RECURSIVE NatString(_)
NatString(n) ==
    IF n < 10 THEN <<DigitChar(n)>>
    ELSE NatString(n \div 10) \o <<DigitChar(n % 10)>>

\* fmt.Sprintf("%d", n)
Itoa(n) == IF n < 0 THEN <<"-">> \o NatString(0 - n) ELSE NatString(n)

\* strings.Split(s, sep) for a one-character separator
RECURSIVE Split(_, _)
Split(s, sep) ==
    IF \E i \in 1..Len(s) : s[i] = sep
    THEN LET i == CHOOSE k \in 1..Len(s) :
                     s[k] = sep /\ \A j \in 1..(k - 1) : s[j] # sep
         IN  <<SubSeq(s, 1, i - 1)>> \o Split(SubSeq(s, i + 1, Len(s)), sep)
    ELSE <<s>>

\* strings.Join(parts, sep)
RECURSIVE Join(_, _)
Join(parts, sep) ==
    IF Len(parts) = 0 THEN EmptyString
    ELSE IF Len(parts) = 1 THEN parts[1]
    ELSE parts[1] \o sep \o Join(Tail(parts), sep)

\* filepath.Ext: the suffix beginning at the final dot of the final path element
Ext(path) ==
    LET dots == {i \in 1..Len(path) :
                    /\ path[i] = "."
                    /\ \A j \in i..Len(path) : path[j] # "/"}
    IN  IF dots = {} THEN EmptyString
        ELSE LET i == CHOOSE k \in dots : \A j \in dots : j <= k
             IN  SubSeq(path, i, Len(path))

-----------------------------------------------------------------------------
(* config                                                                  *)

mp4 == <<"m", "p", "4">>
webm == <<"w", "e", "b", "m">>
h264 == <<"h", "2", "6", "4">>
h265 == <<"h", "2", "6", "5">>
av1 == <<"a", "v", "1">>
vp9 == <<"v", "p", "9">>
novideo == <<"n", "o", "v", "i", "d", "e", "o">>
aac == <<"a", "a", "c">>
opus == <<"o", "p", "u", "s">>
vorbis == <<"v", "o", "r", "b", "i", "s">>
noaudio == <<"n", "o", "a", "u", "d", "i", "o">>
bunny == <<"b", "u", "n", "n", "y">>

\* the name of an encoder that takes no part in the encode
none == <<"n", "o", "n", "e">>

VideoCodecNameMap ==
    (av1 :> <<"l", "i", "b", "a", "o", "m", "-", "a", "v", "1">>)
        @@ (h264 :> <<"l", "i", "b", "x", "2", "6", "4">>)
        @@ (h265 :> <<"l", "i", "b", "x", "2", "6", "5">>)
        @@ (vp9 :> <<"l", "i", "b", "v", "p", "x", "-", "v", "p", "9">>)
        @@ (novideo :> none)

AudioCodecNameMap ==
    (aac :> aac)
        @@ (opus :> <<"l", "i", "b", "o", "p", "u", "s">>)
        @@ (vorbis :> vorbis)
        @@ (noaudio :> none)

\* indexing a Go map[string]string: the zero value for a missing key
MapLookup(m, key) == IF key \in DOMAIN m THEN m[key] ELSE EmptyString

\* a whitelist that also lets avi through
ValidContainersWithAvi == {mp4, webm, <<"a", "v", "i">>}

ValidVideoCodecs == {av1, h264, h265, vp9, novideo}
ValidAudioCodecs == {aac, opus, vorbis, noaudio}
ValidContainers == {mp4, webm}

Resolutions ==
    { [name |-> <<"2", "4", "0", "p">>, Width |-> 426, Height |-> 240],
      [name |-> <<"3", "6", "0", "p">>, Width |-> 640, Height |-> 360],
      [name |-> <<"4", "8", "0", "p">>, Width |-> 854, Height |-> 480],
      [name |-> <<"7", "2", "0", "p">>, Width |-> 1280, Height |-> 720],
      [name |-> <<"1", "0", "8", "0", "p">>, Width |-> 1920, Height |-> 1080],
      [name |-> <<"1", "4", "4", "0", "p">>, Width |-> 2560, Height |-> 1440],
      [name |-> <<"4", "k">>, Width |-> 3840, Height |-> 2160] }

\* the zero value of config.VideoSpec
VideoSpec ==
    [Name |-> EmptyString, Width |-> 0, Height |-> 0, Duration |-> 0,
     Codec |-> EmptyString, FPS |-> 0, Bitrate |-> EmptyString,
     AudioCodec |-> EmptyString, AudioBitrate |-> 0, Container |-> EmptyString]

DefaultVideoSpec ==
    [Name |-> bunny, Width |-> 1280, Height |-> 720, Duration |-> 20,
     Codec |-> h264, FPS |-> 30, Bitrate |-> <<"2", "5", "c", "r", "f">>,
     AudioCodec |-> aac, AudioBitrate |-> 128, Container |-> mp4]

\* a defaulting that fills in nothing once the request names any field
ApplyDefaultVideoSpecOfEmptyOnly(input) ==
    IF input = VideoSpec THEN DefaultVideoSpec ELSE input

\* a defaulting that leaves an unset Bitrate unset
ApplyDefaultVideoSpecKeepsBitrate(input) ==
    [Name         |-> IF input.Name # EmptyString THEN input.Name
                      ELSE DefaultVideoSpec.Name,
     Width        |-> IF input.Width # 0 THEN input.Width
                      ELSE DefaultVideoSpec.Width,
     Height       |-> IF input.Height # 0 THEN input.Height
                      ELSE DefaultVideoSpec.Height,
     Duration     |-> IF input.Duration # 0 THEN input.Duration
                      ELSE DefaultVideoSpec.Duration,
     Codec        |-> IF input.Codec # EmptyString THEN input.Codec
                      ELSE DefaultVideoSpec.Codec,
     FPS          |-> IF input.FPS # 0 THEN input.FPS
                      ELSE DefaultVideoSpec.FPS,
     Bitrate      |-> input.Bitrate,
     AudioCodec   |-> IF input.AudioCodec # EmptyString THEN input.AudioCodec
                      ELSE DefaultVideoSpec.AudioCodec,
     AudioBitrate |-> IF input.AudioBitrate # 0 THEN input.AudioBitrate
                      ELSE DefaultVideoSpec.AudioBitrate,
     Container    |-> IF input.Container # EmptyString THEN input.Container
                      ELSE DefaultVideoSpec.Container]

ApplyDefaultVideoSpec(input) ==
    [Name         |-> IF input.Name # EmptyString THEN input.Name
                      ELSE DefaultVideoSpec.Name,
     Width        |-> IF input.Width # 0 THEN input.Width
                      ELSE DefaultVideoSpec.Width,
     Height       |-> IF input.Height # 0 THEN input.Height
                      ELSE DefaultVideoSpec.Height,
     Duration     |-> IF input.Duration # 0 THEN input.Duration
                      ELSE DefaultVideoSpec.Duration,
     Codec        |-> IF input.Codec # EmptyString THEN input.Codec
                      ELSE DefaultVideoSpec.Codec,
     FPS          |-> IF input.FPS # 0 THEN input.FPS
                      ELSE DefaultVideoSpec.FPS,
     Bitrate      |-> IF input.Bitrate # EmptyString THEN input.Bitrate
                      ELSE DefaultVideoSpec.Bitrate,
     AudioCodec   |-> IF input.AudioCodec # EmptyString THEN input.AudioCodec
                      ELSE DefaultVideoSpec.AudioCodec,
     AudioBitrate |-> IF input.AudioBitrate # 0 THEN input.AudioBitrate
                      ELSE DefaultVideoSpec.AudioBitrate,
     Container    |-> IF input.Container # EmptyString THEN input.Container
                      ELSE DefaultVideoSpec.Container]

-----------------------------------------------------------------------------
(* parser: ParseFilename and GenerateFilename                              *)

\* ^(\d+)x(\d+)$
resolutionRegex(part) ==
    \E i \in 1..Len(part) :
        /\ part[i] = "x"
        /\ AllDigits(SubSeq(part, 1, i - 1))
        /\ AllDigits(SubSeq(part, i + 1, Len(part)))

\* ^(\d+)<suffix>$
DigitsThen(part, suffix) ==
    HasSuffix(part, suffix) /\ AllDigits(TrimSuffix(part, suffix))

durationRegex(part) == DigitsThen(part, <<"s">>)
crfRegex(part) == DigitsThen(part, <<"c", "r", "f">>)
cbrRegex(part) == DigitsThen(part, <<"c", "b", "r">>)
vbrRegex(part) == DigitsThen(part, <<"v", "b", "r">>)
audioBitrateRegex(part) == DigitsThen(part, <<"k", "b", "p", "s">>)

\* the base names of the files of the source-video directory; "big_buck"
\* stands for a clip whose file name holds an underscore
cat == <<"c", "a", "t">>
big_buck == <<"b", "i", "g", "_", "b", "u", "c", "k">>
getSourceFileNames == {bunny, cat, big_buck}

\* one iteration of the switch over the parts of the filename
ParsePart(params, part, sourceFiles) ==
    IF resolutionRegex(part)
    THEN LET i == CHOOSE k \in 1..Len(part) : part[k] = "x"
             w == Atoi(SubSeq(part, 1, i - 1))
             h == Atoi(SubSeq(part, i + 1, Len(part)))
         IN  IF w.ok /\ h.ok
             THEN [params EXCEPT !.Width = w.val, !.Height = h.val]
             ELSE params
    ELSE IF HasSuffix(part, <<"f", "p", "s">>)
    THEN LET fps == Atoi(TrimSuffix(part, <<"f", "p", "s">>))
         IN  IF fps.ok THEN [params EXCEPT !.FPS = fps.val] ELSE params
    ELSE IF durationRegex(part)
    THEN LET duration == Atoi(TrimSuffix(part, <<"s">>))
         IN  IF duration.ok THEN [params EXCEPT !.Duration = duration.val]
             ELSE params
    ELSE IF crfRegex(part) \/ cbrRegex(part) \/ vbrRegex(part)
    THEN [params EXCEPT !.Bitrate = part]
    ELSE IF audioBitrateRegex(part)
    THEN LET audioBitrate == Atoi(TrimSuffix(part, <<"k", "b", "p", "s">>))
         IN  IF audioBitrate.ok
             THEN [params EXCEPT !.AudioBitrate = audioBitrate.val]
             ELSE params
    ELSE IF \E res \in Resolutions : res.name = part
    THEN LET res == CHOOSE r \in Resolutions : r.name = part
         IN  [params EXCEPT !.Width = res.Width, !.Height = res.Height]
    ELSE IF part \in ValidVideoCodecs THEN [params EXCEPT !.Codec = part]
    ELSE IF part \in ValidAudioCodecs THEN [params EXCEPT !.AudioCodec = part]
    ELSE IF part \in sourceFiles THEN [params EXCEPT !.Name = part]
    ELSE params

\* a loop in which the first token of a field wins
RECURSIVE ParsePartsFirstWins(_, _, _)
ParsePartsFirstWins(params, parts, sourceFiles) ==
    IF Len(parts) = 0 THEN params
    ELSE ParsePart(ParsePartsFirstWins(params, Tail(parts), sourceFiles),
                   Head(parts), sourceFiles)

\* a loop that gives up at the first part it does not recognise
RECURSIVE ParsePartsUntilUnknown(_, _, _)
ParsePartsUntilUnknown(params, parts, sourceFiles) ==
    IF Len(parts) = 0 THEN params
    ELSE IF ParsePart(VideoSpec, Head(parts), sourceFiles) = VideoSpec
              /\ ParsePart(DefaultVideoSpec, Head(parts), sourceFiles)
                     = DefaultVideoSpec
    THEN params
    ELSE ParsePartsUntilUnknown(ParsePart(params, Head(parts), sourceFiles),
                                Tail(parts), sourceFiles)

\* for _, part := range parts
RECURSIVE ParseParts(_, _, _)
ParseParts(params, parts, sourceFiles) ==
    IF Len(parts) = 0 THEN params
    ELSE ParseParts(ParsePart(params, Head(parts), sourceFiles),
                    Tail(parts), sourceFiles)

ParseFilename(name) ==
    LET dotExt == ToLower(Ext(name))
        ext    == IF dotExt # EmptyString THEN Tail(dotExt) ELSE dotExt
        base   == TrimSuffix(name, Ext(name))
        start  == IF ext # EmptyString THEN [VideoSpec EXCEPT !.Container = ext]
                  ELSE VideoSpec
    IN  IF ext # EmptyString /\ ext \notin ValidContainers
        THEN [err |-> TRUE, spec |-> VideoSpec]
        ELSE [err  |-> FALSE,
              spec |-> ParseParts(start, Split(base, "_"), getSourceFileNames)]

\* a rendering that keeps the bitrate token of a spec without video
GenerateFilenameKeepsBitrate(s) ==
    LET parts ==
            (IF s.Name # EmptyString THEN <<s.Name>> ELSE << >>)
         \o (IF s.Codec # EmptyString THEN <<s.Codec>> ELSE << >>)
         \o (IF s.Width > 0 /\ s.Height > 0 /\ s.Codec # novideo
             THEN <<Itoa(s.Width) \o <<"x">> \o Itoa(s.Height)>> ELSE << >>)
         \o (IF s.FPS > 0 /\ s.Codec # novideo
             THEN <<Itoa(s.FPS) \o <<"f", "p", "s">> >> ELSE << >>)
         \o (IF s.Duration > 0 THEN <<Itoa(s.Duration) \o <<"s">> >> ELSE << >>)
         \o <<s.Bitrate>>
         \o (IF s.AudioCodec # EmptyString THEN <<s.AudioCodec>> ELSE << >>)
         \o (IF s.AudioBitrate > 0 /\ s.AudioCodec # noaudio
             THEN <<Itoa(s.AudioBitrate) \o <<"k", "b", "p", "s">> >>
             ELSE << >>)
        joined == Join(parts, <<"_">>)
    IN  IF s.Container # EmptyString THEN joined \o <<".">> \o s.Container
        ELSE joined

GenerateFilename(s) ==
    LET parts ==
            (IF s.Name # EmptyString THEN <<s.Name>> ELSE << >>)
         \o (IF s.Codec # EmptyString THEN <<s.Codec>> ELSE << >>)
         \o (IF s.Width > 0 /\ s.Height > 0 /\ s.Codec # novideo
             THEN <<Itoa(s.Width) \o <<"x">> \o Itoa(s.Height)>> ELSE << >>)
         \o (IF s.FPS > 0 /\ s.Codec # novideo
             THEN <<Itoa(s.FPS) \o <<"f", "p", "s">> >> ELSE << >>)
         \o (IF s.Duration > 0 THEN <<Itoa(s.Duration) \o <<"s">> >> ELSE << >>)
         \o (IF s.Bitrate # EmptyString /\ s.Codec # novideo
             THEN <<s.Bitrate>> ELSE << >>)
         \o (IF s.AudioCodec # EmptyString THEN <<s.AudioCodec>> ELSE << >>)
         \o (IF s.AudioBitrate > 0 /\ s.AudioCodec # noaudio
             THEN <<Itoa(s.AudioBitrate) \o <<"k", "b", "p", "s">> >>
             ELSE << >>)
        joined == Join(parts, <<"_">>)
    IN  IF s.Container # EmptyString THEN joined \o <<".">> \o s.Container
        ELSE joined

-----------------------------------------------------------------------------
(* The state of each component before it has done anything                 *)

NoResult == [err |-> FALSE, spec |-> VideoSpec]

ParserIdle ==
    /\ spec = VideoSpec
    /\ filename = EmptyString
    /\ parsed = NoResult
    /\ regenerated = EmptyString
    /\ pc = "off"

\* number of Transcode calls on the same output path
MaxCalls == 1
Calls == 1..MaxCalls

NoStat == 0 - 1
NoFile == [exists |-> FALSE, size |-> 0, writer |-> 0]
NewChan == [buf |-> << >>, closed |-> FALSE]

ServiceIdle ==
    /\ file = NoFile
    /\ tpc = [c \in Calls |-> "idle"]
    /\ statSize = [c \in Calls |-> NoStat]
    /\ removed = [c \in Calls |-> FALSE]
    /\ encoderStarted = [c \in Calls |-> FALSE]
    /\ encoderExit = [c \in Calls |-> "none"]
    /\ sent = [c \in Calls |-> [result |-> 0, err |-> 0]]
    /\ resultCh = [c \in Calls |-> NewChan]
    /\ errCh = [c \in Calls |-> NewChan]
    /\ ctxDone = [c \in Calls |-> FALSE]
    /\ got = [c \in Calls |-> "none"]
    /\ killed = [c \in Calls |-> FALSE]

NoRequest == [kind |-> "none", name |-> EmptyString]

HLSIdle ==
    /\ now = 1
    /\ videoNameDir = FALSE
    /\ resolutionDir = FALSE
    /\ dirFiles = {}
    /\ hlsDone = FALSE
    /\ request = NoRequest
    /\ status = 0
    /\ playlist = << >>
    /\ served = EmptyString
    /\ servedAt = 0
    /\ seenDir = FALSE
    /\ seenCount = 0
    /\ chunkFile = EmptyString

NoPath == [tier |-> "none", dir |-> EmptyString, file |-> EmptyString]

NoCreated == [by |-> "none", name |-> EmptyString, path |-> NoPath]

NoAsked == [clip |-> EmptyString, file |-> EmptyString]

FindIdle ==
    /\ pregenCount = [c \in getSourceFileNames |-> 0]
    /\ tmpFiles = {}
    /\ findFilename = EmptyString
    /\ findName = EmptyString
    /\ heldBy = {}
    /\ inTmp = FALSE
    /\ checked = << >>
    /\ existingPath = NoPath
    /\ rootFiles = {}
    /\ created = NoCreated
    /\ asked = NoAsked

\* the two clients whose requests resolve to the same canonical filename
Slots == {"a", "b"}

NoArtifact == [exists |-> FALSE, size |-> 0, complete |-> FALSE, writer |-> "none"]

\* net/http status codes
StatusOK == 200
StatusNotFound == 404
StatusInternalServerError == 500

RequestIdle ==
    /\ pregenFile = NoArtifact
    /\ scratch = NoArtifact
    /\ rqPc = [r \in Slots |-> "idle"]
    /\ rqSaw = [r \in Slots |-> NoArtifact]
    /\ rqStat = [r \in Slots |-> NoArtifact]
    /\ rqStarted = [r \in Slots |-> FALSE]
    /\ rqServed = [r \in Slots |-> "nothing"]
    /\ rqStatus = [r \in Slots |-> 0]

\* number of catalog entries pregeneration gets through per clip
MaxPregen == 2

\* number of process starts
MaxRuns == 2

\* the source clips discovered at startup, in directory order
SourceVideoFiles == <<bunny, cat>>

PregenEntries == 1..MaxPregen
Jobs == (1..Len(SourceVideoFiles)) \X PregenEntries

PregenIdle ==
    /\ inputFiles = <<>>
    /\ pgRun = 0
    /\ pgClip = 0
    /\ pgEntry = 0
    /\ pgPc = "off"
    /\ pgCtx = FALSE
    /\ disk = [j \in Jobs |-> NoArtifact]
    /\ jobPc = [j \in Jobs |-> "none"]
    /\ jobStarted = [j \in Jobs |-> FALSE]
    /\ jobExit = [j \in Jobs |-> "none"]
    /\ jobSaw = [j \in Jobs |-> "none"]
    /\ prevFailed = [j \in Jobs |-> FALSE]

\* the keys of hlsResolutions in PregenerateHLS
HLSTiers == {<<"4", "8", "0", "p">>, <<"7", "2", "0", "p">>, <<"1", "0", "8", "0", "p">>}

NoResolution == [Width |-> 0, Height |-> 0]
NoProbe == [err |-> "none", streams |-> << >>]

TierIdle ==
    /\ probe = NoProbe
    /\ hpRun = 0
    /\ hpPc = "off"
    /\ hpCtx = FALSE
    /\ isVertical = FALSE
    /\ hlsResolutions = [t \in HLSTiers |-> NoResolution]
    /\ tiersLeft = {}
    /\ resName = EmptyString
    /\ streamFiles = [t \in HLSTiers |-> {}]
    /\ masterPlaylist = FALSE
    /\ encodedWith = [t \in HLSTiers |-> NoResolution]
    /\ tierExit = [t \in HLSTiers |-> "none"]
    /\ hjPc = "none"
    /\ hjExit = "none"
    /\ prevOk = FALSE

\* no request token
NoToken == [parts |-> << >>, ext |-> EmptyString]

TokenIdle ==
    /\ tkParts = << >>
    /\ tkExt = EmptyString
    /\ tkParsed = NoResult
    /\ tkOrder = << >>
    /\ tkReordered = NoResult
    /\ tkEncoder = EmptyString
    /\ tkVariant = NoToken
    /\ tkKeys = << >>
    /\ tkPc = "off"

\* no frame: nothing read or written yet, or ffmpeg refused the filter graph
NoSize == [Width |-> 0, Height |-> 0]

FieldIdle ==
    /\ defaultSpec = DefaultVideoSpec
    /\ fsInput = VideoSpec
    /\ fsResolved = VideoSpec
    /\ fsAgain = VideoSpec
    /\ fsFilename = EmptyString
    /\ fsArgs = << >>
    /\ fsSource = NoSize
    /\ fsOutput = NoSize
    /\ fsPc = "off"

\* an unbuffered-looking view of a channel of capacity 1: what is buffered
\* and whether close() has run
NoChannel == [buf |-> 0, closed |-> FALSE]

StreamIdle ==
    /\ stFinal = 0
    /\ stExists = FALSE
    /\ stLen = 0
    /\ stExit = "none"
    /\ stGo = "off"
    /\ stResultCh = NoChannel
    /\ stErrCh = NoChannel
    /\ stGone = FALSE
    /\ stPc = "off"
    /\ stTries = 0
    /\ stLastPos = 0
    /\ stSent = << >>
    /\ stReturn = "none"

\* no clip has ended yet
NoOutcome == [how |-> "none", missed |-> FALSE]

StartupIdle ==
    /\ suCtx = "live"
    /\ suPhase = "off"
    /\ suClip = 0
    /\ suItem = 0
    /\ suPc = "off"
    /\ suEnc = "none"
    /\ suClosed = FALSE
    /\ suDisk = {}
    /\ suMissed = FALSE
    /\ suLast = NoOutcome
    /\ suLate = FALSE

-----------------------------------------------------------------------------
(* service: VideoService.Transcode                                         *)

\* "if stat.Size() > 1024"
MinFileSize == 1024

\* make(chan string, 1), make(chan error, 1)
ChanCap == 1

FileSizes == {0, MinFileSize, MinFileSize + 1}

fullOutputPath == "fullOutputPath"
\* the output directory may hold a file of any size left by an earlier run
ServiceInit ==
    /\ ParserIdle
    /\ HLSIdle
    /\ FindIdle
    /\ RequestIdle
    /\ PregenIdle /\ TierIdle
    /\ TokenIdle /\ FieldIdle /\ StreamIdle /\ StartupIdle
    /\ file \in {NoFile} \cup
                {[exists |-> TRUE, size |-> s, writer |-> 0] : s \in FileSizes}
    /\ tpc = [c \in Calls |-> "idle"]
    /\ statSize = [c \in Calls |-> NoStat]
    /\ removed = [c \in Calls |-> FALSE]
    /\ encoderStarted = [c \in Calls |-> FALSE]
    /\ encoderExit = [c \in Calls |-> "none"]
    /\ sent = [c \in Calls |-> [result |-> 0, err |-> 0]]
    /\ resultCh = [c \in Calls |-> NewChan]
    /\ errCh = [c \in Calls |-> NewChan]
    /\ ctxDone = [c \in Calls |-> FALSE]
    /\ got = [c \in Calls |-> "none"]
    /\ killed = [c \in Calls |-> FALSE]

\* where a call goes after os.Stat: the cache short-circuit, the removal of
\* an undersized file, or straight to the encode goroutine
AfterStatMissesCache(exists, size) ==
    IF exists /\ size <= MinFileSize THEN "remove" ELSE "encode"

AfterStat(exists, size) ==
    IF exists /\ size > MinFileSize THEN "sendResult"
    ELSE IF exists THEN "remove"
    ELSE "encode"

\* Transcode: make the channels, os.Stat(fullOutputPath)
Transcode(c) ==
    /\ tpc[c] = "idle"
    /\ statSize' = [statSize EXCEPT ![c] = IF file.exists THEN file.size ELSE NoStat]
    /\ tpc' = [tpc EXCEPT ![c] = AfterStat(file.exists, file.size)]
    /\ UNCHANGED <<file, removed, encoderStarted, encoderExit, sent, resultCh,
                   errCh, ctxDone, got>>
    /\ UNCHANGED killed
    /\ UNCHANGED notServiceVars

\* os.Remove(fullOutputPath), then the encode goroutine is launched
RemoveCorruptedKeepsFile(c) ==
    /\ tpc[c] = "remove"
    /\ removed' = [removed EXCEPT ![c] = TRUE]
    /\ tpc' = [tpc EXCEPT ![c] = "sendResult"]
    /\ UNCHANGED <<file, statSize, encoderStarted, encoderExit, sent, resultCh,
                   errCh, ctxDone, got>>
    /\ UNCHANGED killed
    /\ UNCHANGED notServiceVars

RemoveCorrupted(c) ==
    /\ tpc[c] = "remove"
    /\ file' = NoFile
    /\ removed' = [removed EXCEPT ![c] = TRUE]
    /\ tpc' = [tpc EXCEPT ![c] = "encode"]
    /\ UNCHANGED <<statSize, encoderStarted, encoderExit, sent, resultCh,
                   errCh, ctxDone, got>>
    /\ UNCHANGED killed
    /\ UNCHANGED notServiceVars

\* exec.CommandContext(ctx, "ffmpeg", args...); cmd.Run(): with a context that
\* is already done the process is not started and Run returns the error
EncoderStart(c) ==
    /\ tpc[c] = "encode"
    /\ IF ctxDone[c]
       THEN /\ encoderExit' = [encoderExit EXCEPT ![c] = "fail"]
            /\ tpc' = [tpc EXCEPT ![c] = "sendErr"]
            /\ UNCHANGED encoderStarted
       ELSE /\ encoderStarted' = [encoderStarted EXCEPT ![c] = TRUE]
            /\ tpc' = [tpc EXCEPT ![c] = "running"]
            /\ UNCHANGED encoderExit
    /\ UNCHANGED <<file, statSize, removed, sent, resultCh, errCh, ctxDone, got>>
    /\ UNCHANGED killed
    /\ UNCHANGED notServiceVars

\* exec.CommandContext(ctx, ...): once ctx is done the process is killed, and
\* cmd.Run returns an error even if the process had finished its work
EncoderAliveWithoutContext(c) == TRUE

EncoderAlive(c) == ~killed[c]

\* ffmpeg creates the output file and appends to it while it runs
EncoderWrite(c) ==
    /\ tpc[c] = "running"
    /\ EncoderAlive(c)
    /\ \E s \in FileSizes :
          /\ (file.exists /\ file.writer = c) => s > file.size
          /\ file' = [exists |-> TRUE, size |-> s, writer |-> c]
    /\ UNCHANGED <<tpc, statSize, removed, encoderStarted, encoderExit, sent,
                   resultCh, errCh, ctxDone, got>>
    /\ UNCHANGED killed
    /\ UNCHANGED notServiceVars

\* ffmpeg exits with status 0: the complete output is at the path
EncoderExitOk(c) ==
    /\ tpc[c] = "running"
    /\ EncoderAlive(c)
    /\ \E s \in FileSizes \ {0} :
          file' = [exists |-> TRUE, size |-> s, writer |-> c]
    /\ encoderExit' = [encoderExit EXCEPT ![c] = "ok"]
    /\ tpc' = [tpc EXCEPT ![c] = "sendResult"]
    /\ UNCHANGED <<statSize, removed, encoderStarted, sent, resultCh, errCh,
                   ctxDone, got>>
    /\ UNCHANGED killed
    /\ UNCHANGED notServiceVars

\* ffmpeg exits non-zero (or is killed because ctx is done): "if err :=
\* cmd.Run(); err != nil" logs and goes on to send the error; whatever ffmpeg
\* had written stays at the path
EncoderExitFail(c) ==
    /\ tpc[c] = "running"
    /\ encoderExit' = [encoderExit EXCEPT ![c] = "fail"]
    /\ tpc' = [tpc EXCEPT ![c] = "sendErr"]
    /\ UNCHANGED <<file, statSize, removed, encoderStarted, sent, resultCh,
                   errCh, ctxDone, got>>
    /\ UNCHANGED killed
    /\ UNCHANGED notServiceVars

\* a send on a buffered channel proceeds when the buffer has room
CanSend(ch) == ~ch.closed /\ Len(ch.buf) < ChanCap

\* resultCh <- fullOutputPath
SendResult(c) ==
    /\ tpc[c] = "sendResult"
    /\ CanSend(resultCh[c])
    /\ resultCh' = [resultCh EXCEPT ![c].buf = Append(@, fullOutputPath)]
    /\ sent' = [sent EXCEPT ![c].result = @ + 1]
    /\ tpc' = [tpc EXCEPT ![c] = "closeErrCh"]
    /\ UNCHANGED <<file, statSize, removed, encoderStarted, encoderExit, errCh,
                   ctxDone, got>>
    /\ UNCHANGED killed
    /\ UNCHANGED notServiceVars

\* errCh <- fmt.Errorf("ffmpeg failed: ..."); return
SendErrAlsoResult(c) ==
    /\ tpc[c] = "sendErr"
    /\ CanSend(errCh[c])
    /\ errCh' = [errCh EXCEPT ![c].buf = Append(@, "ffmpeg failed")]
    /\ resultCh' = [resultCh EXCEPT ![c].buf = Append(@, fullOutputPath)]
    /\ sent' = [sent EXCEPT ![c].err = @ + 1, ![c].result = @ + 1]
    /\ tpc' = [tpc EXCEPT ![c] = "closeErrCh"]
    /\ UNCHANGED <<file, statSize, removed, encoderStarted, encoderExit,
                   ctxDone, got>>
    /\ UNCHANGED killed
    /\ UNCHANGED notServiceVars

SendErr(c) ==
    /\ tpc[c] = "sendErr"
    /\ CanSend(errCh[c])
    /\ errCh' = [errCh EXCEPT ![c].buf = Append(@, "ffmpeg failed")]
    /\ sent' = [sent EXCEPT ![c].err = @ + 1]
    /\ tpc' = [tpc EXCEPT ![c] = "closeErrCh"]
    /\ UNCHANGED <<file, statSize, removed, encoderStarted, encoderExit,
                   resultCh, ctxDone, got>>
    /\ UNCHANGED killed
    /\ UNCHANGED notServiceVars

\* the deferred calls run last-in first-out: close(errCh), then close(resultCh)
CloseErrCh(c) ==
    /\ tpc[c] = "closeErrCh"
    /\ errCh' = [errCh EXCEPT ![c].closed = TRUE]
    /\ tpc' = [tpc EXCEPT ![c] = "closeResultCh"]
    /\ UNCHANGED <<file, statSize, removed, encoderStarted, encoderExit, sent,
                   resultCh, ctxDone, got>>
    /\ UNCHANGED killed
    /\ UNCHANGED notServiceVars

CloseResultCh(c) ==
    /\ tpc[c] = "closeResultCh"
    /\ resultCh' = [resultCh EXCEPT ![c].closed = TRUE]
    /\ tpc' = [tpc EXCEPT ![c] = "done"]
    /\ UNCHANGED <<file, statSize, removed, encoderStarted, encoderExit, sent,
                   errCh, ctxDone, got>>
    /\ UNCHANGED killed
    /\ UNCHANGED notServiceVars

\* the caller's context is cancelled or its deadline passes while the caller
\* still waits in its select
CtxCancel(c) ==
    /\ tpc[c] # "idle"
    /\ got[c] = "none"
    /\ ~ctxDone[c]
    /\ ctxDone' = [ctxDone EXCEPT ![c] = TRUE]
    /\ killed' = [killed EXCEPT ![c] = (tpc[c] = "running")]
    /\ UNCHANGED <<file, tpc, statSize, removed, encoderStarted, encoderExit,
                   sent, resultCh, errCh, got>>
    /\ UNCHANGED notServiceVars

\* the caller's select over resultCh, errCh and ctx.Done(): any ready case may
\* be taken; a closed, empty channel is ready and yields the zero value.  A
\* caller that has stopped receiving never takes this step.
Receive(c) ==
    /\ tpc[c] # "idle"
    /\ got[c] = "none"
    /\ \/ /\ Len(resultCh[c].buf) > 0
          /\ resultCh' = [resultCh EXCEPT ![c].buf = Tail(@)]
          /\ got' = [got EXCEPT ![c] = "result"]
          /\ UNCHANGED errCh
       \/ /\ Len(errCh[c].buf) > 0
          /\ errCh' = [errCh EXCEPT ![c].buf = Tail(@)]
          /\ got' = [got EXCEPT ![c] = "error"]
          /\ UNCHANGED resultCh
       \/ /\ Len(resultCh[c].buf) = 0 /\ resultCh[c].closed
          /\ got' = [got EXCEPT ![c] = "zeroResult"]
          /\ UNCHANGED <<resultCh, errCh>>
       \/ /\ Len(errCh[c].buf) = 0 /\ errCh[c].closed
          /\ got' = [got EXCEPT ![c] = "zeroError"]
          /\ UNCHANGED <<resultCh, errCh>>
       \/ /\ ctxDone[c]
          /\ got' = [got EXCEPT ![c] = "cancelled"]
          /\ UNCHANGED <<resultCh, errCh>>
    /\ UNCHANGED <<file, tpc, statSize, removed, encoderStarted, encoderExit,
                   sent, ctxDone>>
    /\ UNCHANGED killed
    /\ UNCHANGED notServiceVars

ServiceNext ==
    \E c \in Calls :
        \/ Transcode(c)
        \/ RemoveCorrupted(c)
        \/ EncoderStart(c)
        \/ EncoderWrite(c)
        \/ EncoderExitOk(c)
        \/ EncoderExitFail(c)
        \/ SendResult(c)
        \/ SendErr(c)
        \/ CloseErrCh(c)
        \/ CloseResultCh(c)
        \/ CtxCancel(c)
        \/ Receive(c)

ServiceSpec == ServiceInit /\ [][ServiceNext]_vars

AfterSend == {"closeErrCh", "closeResultCh", "done"}

\* C2: completion protocol of Transcode -- on every path (cache hit, undersized
\* file removed, encoder success, encoder failure, context cancelled) exactly
\* one value in total is sent, on exactly one of the two channels, and then
\* both channels are closed; a send never finds its buffer full, also when
\* the caller has stopped receiving.
C2_CompletionProtocol ==
    \A c \in Calls :
        /\ sent[c].result + sent[c].err <= 1
        /\ (tpc[c] \in AfterSend => sent[c].result + sent[c].err = 1)
        /\ (tpc[c] \notin AfterSend => sent[c].result + sent[c].err = 0)
        /\ (tpc[c] = "done" => resultCh[c].closed /\ errCh[c].closed)
        /\ (resultCh[c].closed \/ errCh[c].closed => tpc[c] \in AfterSend)
        /\ (tpc[c] = "sendResult" => CanSend(resultCh[c]))
        /\ (tpc[c] = "sendErr" => CanSend(errCh[c]))

\* a failed encode completed although the caller never received
C2_Witness ==
    \E c \in Calls :
        /\ tpc[c] = "done" /\ got[c] = "none"
        /\ encoderExit[c] = "fail" /\ sent[c].err = 1

\* C3: cache short-circuit -- a call that finds a file larger than the
\* minimum threshold at the canonical path delivers that path as success
\* and never starts the encoder.
C3_CacheShortCircuit ==
    \A c \in Calls :
        statSize[c] > MinFileSize =>
            /\ ~encoderStarted[c] /\ encoderExit[c] = "none" /\ ~removed[c]
            /\ tpc[c] \notin {"remove", "encode", "running", "sendErr"}
            /\ sent[c].err = 0
            /\ (tpc[c] \in AfterSend => sent[c].result = 1)

C3_Witness ==
    \E c \in Calls :
        statSize[c] > MinFileSize /\ tpc[c] = "done" /\ got[c] = "result"

Undersized(c) == statSize[c] # NoStat /\ statSize[c] <= MinFileSize

\* C4: cache corruption self-heal -- a call that finds a file not above the
\* threshold deletes it and goes on to the encoder; the path is delivered as
\* success only after this call's own encode has succeeded, and the
\* undersized file is no longer at the path.
C4_SelfHeal ==
    \A c \in Calls :
        Undersized(c) =>
            /\ (tpc[c] # "remove" => removed[c])
            /\ (removed[c] => ~(file.exists /\ file.writer = 0))
            /\ (sent[c].result > 0 => encoderStarted[c] /\ encoderExit[c] = "ok")

C4_Witness ==
    \E c \in Calls :
        Undersized(c) /\ tpc[c] = "done" /\ sent[c].result = 1

\* C5: on a non-zero encoder exit Transcode deletes the partial output file:
\* once the error of a failed encode has been sent, no file written by that
\* encode is left at the canonical path.
C5_FailedEncodeLeavesNoFile ==
    \A c \in Calls :
        (encoderExit[c] = "fail" /\ tpc[c] \in AfterSend) =>
            ~(file.exists /\ file.writer = c)

\* C19: the context passed to Transcode is attached to the encoder process --
\* if it is cancelled (or its deadline passes) while the encoder is running,
\* the encoder is killed: the call never delivers a success path, it delivers
\* exactly one error, and both channels are closed when it completes.
C19_CancelKillsEncoder ==
    \A c \in Calls :
        killed[c] =>
            /\ encoderStarted[c] /\ ctxDone[c]
            /\ encoderExit[c] # "ok"
            /\ sent[c].result = 0
            /\ (tpc[c] \in AfterSend => sent[c].err = 1)
            /\ (tpc[c] = "done" => resultCh[c].closed /\ errCh[c].closed)

\* an encode was killed by the cancellation and the call has completed
C19_Witness ==
    \E c \in Calls :
        killed[c] /\ tpc[c] = "done" /\ sent[c].err = 1 /\ errCh[c].closed

\* C34: a caller that waits with a select over the result and error channels
\* takes the result branch with the artifact path exactly when the call
\* succeeded and the error branch with a non-nil error exactly when it failed,
\* in every interleaving, also when the task has sent its value and closed
\* both channels before the caller reaches the select; it never receives the
\* zero value of the other, closed channel.
C34_SelectTakesTheOutcome ==
    \A c \in Calls :
        /\ got[c] \notin {"zeroResult", "zeroError"}
        /\ got[c] = "result" => sent[c].result = 1 /\ sent[c].err = 0
        /\ got[c] = "error" => sent[c].err = 1 /\ sent[c].result = 0

-----------------------------------------------------------------------------
(* rest: Rest.ServeHLS and generateMediaPlaylist                           *)

\* the largest number of chunk files the HLS encode writes
MaxChunks == 6
\* the last value of the clock
MaxNow == 6
\* the largest sequence number a segment request names
MaxSeq == 10

\* const segmentsToServe = 5
segmentsToServe == 5

HLSMediaPlaylist == <<"m", "e", "d", "i", "a", ".", "m", "3", "u", "8">>
mediaPrefix == <<"m", "e", "d", "i", "a", ".">>
chunkPrefix == <<"c", "h", "u", "n", "k", "_">>
mp4Suffix == <<".", "m", "p", "4">>
initName == <<"i", "n", "i", "t", ".", "m", "p", "4">>

\* Go's % truncates toward zero
GoRem(a, b) == IF a >= 0 THEN a % b ELSE 0 - ((0 - a) % b)

\* fmt.Sprintf("%03d", n): zero-padded to width 3, the sign included
Pad3(n) ==
    LET digits == NatString(IF n < 0 THEN 0 - n ELSE n)
        width  == IF n < 0 THEN 2 ELSE 3
        zeros  == [i \in 1..(IF Len(digits) < width THEN width - Len(digits) ELSE 0)
                      |-> "0"]
    IN  (IF n < 0 THEN <<"-">> ELSE << >>) \o zeros \o digits

\* fmt.Sprintf("chunk_%03d.mp4", chunkId); also ffmpeg's -hls_segment_filename
chunkName(chunkId) == chunkPrefix \o Pad3(chunkId) \o mp4Suffix

\* fmt.Sprintf("media.%d.mp4", seq)
mediaName(seq) == mediaPrefix \o Itoa(seq) \o mp4Suffix

\* filepath.Glob(resolutionDir/chunk_*.mp4)
Glob(files) ==
    {f \in files : /\ Len(f) >= Len(chunkPrefix) + Len(mp4Suffix)
                   /\ HasPrefix(f, chunkPrefix) /\ HasSuffix(f, mp4Suffix)}

\* chunkCount := len(matches) - 1
chunkCountAll(matches) == Cardinality(matches)

chunkCount(matches) == Cardinality(matches) - 1

Line(tag, val) == [tag |-> tag, val |-> val]

\* the lines of one virtual segment of the window
SegmentLinesMarkFirst(t, i, n) ==
    LET seq == t + i
        currentChunk == GoRem(seq, n)
        prevChunk == GoRem(seq - 1, n)
    IN  (IF currentChunk < prevChunk
         THEN <<Line("#EXT-X-DISCONTINUITY", EmptyString)>> ELSE << >>)
        \o <<Line("#EXTINF:1.000000,", EmptyString), Line("URI", mediaName(t + i))>>

SegmentLines(t, i, n) ==
    LET seq == t + i
        currentChunk == GoRem(seq, n)
        prevChunk == GoRem(seq - 1, n)
    IN  (IF i > 0 /\ currentChunk < prevChunk
         THEN <<Line("#EXT-X-DISCONTINUITY", EmptyString)>> ELSE << >>)
        \o <<Line("#EXTINF:1.000000,", EmptyString), Line("URI", mediaName(t + i))>>

RECURSIVE WindowLines(_, _, _)
WindowLines(t, i, n) ==
    IF i >= segmentsToServe THEN << >>
    ELSE SegmentLines(t, i, n) \o WindowLines(t, i + 1, n)

PlaylistHeaderStatic(t) ==
    <<Line("#EXTM3U", EmptyString),
      Line("#EXT-X-VERSION:", <<"7">>),
      Line("#EXT-X-TARGETDURATION:", <<"1">>),
      Line("#EXT-X-MEDIA-SEQUENCE:", Itoa(0)),
      Line("#EXT-X-MAP:URI=", initName),
      Line("#EXT-X-ENDLIST", EmptyString)>>

PlaylistHeader(t) ==
    <<Line("#EXTM3U", EmptyString),
      Line("#EXT-X-VERSION:", <<"7">>),
      Line("#EXT-X-TARGETDURATION:", <<"1">>),
      Line("#EXT-X-MEDIA-SEQUENCE:", Itoa(t)),
      Line("#EXT-X-MAP:URI=", initName)>>

\* generateMediaPlaylist(chunkCount), reading the clock as t
generateMediaPlaylist(n, t) == PlaylistHeader(t) \o WindowLines(t, 0, n)

HLSInit == ParserIdle /\ ServiceIdle /\ HLSIdle /\ FindIdle /\ RequestIdle /\ PregenIdle /\ TierIdle
    /\ TokenIdle /\ FieldIdle /\ StreamIdle /\ StartupIdle

\* PregenerateHLS: os.MkdirAll(<stream-root>/<videoName>)
MkdirVideoName ==
    /\ ~videoNameDir
    /\ videoNameDir' = TRUE
    /\ UNCHANGED <<now, resolutionDir, dirFiles, hlsDone, request, status,
                   playlist, served, servedAt, seenDir, seenCount,
                   chunkFile>>
    /\ UNCHANGED notHLSVars

\* TranscodeHLS: os.MkdirAll(hlsDir)
MkdirResolution ==
    /\ videoNameDir /\ ~resolutionDir
    /\ resolutionDir' = TRUE
    /\ UNCHANGED <<now, videoNameDir, dirFiles, hlsDone, request, status,
                   playlist, served, servedAt, seenDir, seenCount,
                   chunkFile>>
    /\ UNCHANGED notHLSVars

\* ffmpeg -f hls writes init.mp4 and then chunk_000.mp4, chunk_001.mp4, ...
WriteChunk ==
    /\ resolutionDir /\ ~hlsDone
    /\ Cardinality(Glob(dirFiles)) < MaxChunks
    /\ dirFiles' = dirFiles \cup {initName, chunkName(Cardinality(Glob(dirFiles)))}
    /\ UNCHANGED <<now, videoNameDir, resolutionDir, hlsDone, request, status,
                   playlist, served, servedAt, seenDir, seenCount,
                   chunkFile>>
    /\ UNCHANGED notHLSVars

\* ffmpeg ends (having written any number of chunks, none if it failed early)
EncodeHLSEnds ==
    /\ resolutionDir /\ ~hlsDone
    /\ hlsDone' = TRUE
    /\ UNCHANGED <<now, videoNameDir, resolutionDir, dirFiles, request, status,
                   playlist, served, servedAt, seenDir, seenCount,
                   chunkFile>>
    /\ UNCHANGED notHLSVars

Tick ==
    /\ now < MaxNow
    /\ now' = now + 1
    /\ UNCHANGED <<videoNameDir, resolutionDir, dirFiles, hlsDone, request,
                   status, playlist, served, servedAt, seenDir, seenCount,
                   chunkFile>>
    /\ UNCHANGED notHLSVars

RECURSIVE WindowLinesPlain(_, _)
WindowLinesPlain(t, i) ==
    IF i >= segmentsToServe THEN << >>
    ELSE <<Line("#EXTINF:1.000000,", EmptyString), Line("URI", mediaName(t + i))>>
         \o WindowLinesPlain(t, i + 1)

ServeMediaPlaylistNoCount ==
    LET ok == videoNameDir /\ resolutionDir
    IN  /\ request' = [kind |-> "playlist", name |-> HLSMediaPlaylist]
        /\ servedAt' = IF ok THEN now ELSE 0
        /\ seenDir' = (videoNameDir /\ resolutionDir)
        /\ seenCount' = Cardinality(Glob(dirFiles))
        /\ status' = IF ok THEN 200 ELSE 404
        /\ playlist' = IF ok THEN PlaylistHeader(now) \o WindowLinesPlain(now, 0)
                       ELSE << >>
        /\ served' = EmptyString
        /\ chunkFile' = EmptyString
        /\ UNCHANGED <<now, videoNameDir, resolutionDir, dirFiles, hlsDone>>
        /\ UNCHANGED notHLSVars

\* ServeHLS, path = <tier>/media.m3u8
ServeMediaPlaylist ==
    LET n == chunkCount(Glob(dirFiles))
        ok == videoNameDir /\ resolutionDir /\ n >= 1
    IN  /\ request' = [kind |-> "playlist", name |-> HLSMediaPlaylist]
        /\ servedAt' = IF ok THEN now ELSE 0
        /\ seenDir' = (videoNameDir /\ resolutionDir)
        /\ seenCount' = Cardinality(Glob(dirFiles))
        /\ status' = IF ok THEN 200 ELSE 404
        /\ playlist' = IF ok THEN generateMediaPlaylist(n, now) ELSE << >>
        /\ served' = EmptyString
        /\ chunkFile' = EmptyString
        /\ UNCHANGED <<now, videoNameDir, resolutionDir, dirFiles, hlsDone>>
        /\ UNCHANGED notHLSVars

\* the segment names a client may ask for
SegmentRequests ==
    {mediaName(q) : q \in (0 - 1)..MaxSeq}
    \cup {mediaPrefix \o <<"x">> \o mp4Suffix, mediaPrefix \o mp4Suffix}

\* ServeHLS, path = <tier>/media.<seq>.mp4
ServeSegment(name) ==
    LET n == chunkCount(Glob(dirFiles))
        hlsSeq == Atoi(TrimSuffix(TrimPrefix(name, mediaPrefix), mp4Suffix))
        ok == videoNameDir /\ resolutionDir /\ n >= 1 /\ hlsSeq.ok
        chunkId == GoRem(hlsSeq.val, n)
    IN  /\ request' = [kind |-> "segment", name |-> name]
        /\ servedAt' = 0
        /\ seenDir' = (videoNameDir /\ resolutionDir)
        /\ seenCount' = Cardinality(Glob(dirFiles))
        /\ chunkFile' = IF ok THEN chunkName(chunkId) ELSE EmptyString
        /\ status' = IF ok /\ chunkName(chunkId) \in dirFiles THEN 200 ELSE 404
        /\ served' = IF ok /\ chunkName(chunkId) \in dirFiles
                      THEN chunkName(chunkId) ELSE EmptyString
        /\ playlist' = << >>
        /\ UNCHANGED <<now, videoNameDir, resolutionDir, dirFiles, hlsDone>>
        /\ UNCHANGED notHLSVars

HLSNext ==
    \/ MkdirVideoName
    \/ MkdirResolution
    \/ WriteChunk
    \/ EncodeHLSEnds
    \/ Tick
    \/ ServeMediaPlaylist
    \/ \E name \in SegmentRequests : ServeSegment(name)

HLSSpec == HLSInit /\ [][HLSNext]_vars

IsURI(line) == line.tag = "URI"
IsMarker(line) == line.tag = "#EXT-X-DISCONTINUITY"
URILines(pl) == SelectSeq(pl, IsURI)
URIIndexes(pl) == {i \in 1..Len(pl) : IsURI(pl[i])}

\* the sequence number an entry of the playlist names
EntrySeq(line) == Atoi(TrimSuffix(TrimPrefix(line.val, mediaPrefix), mp4Suffix)).val

\* a discontinuity marker stands right before the entry at line i (the entry's
\* #EXTINF line lies between them)
MarkerBefore(pl, i) == i >= 3 /\ IsMarker(pl[i - 2])

PlaylistServed == request.kind = "playlist" /\ status = 200
SegmentServed == request.kind = "segment" /\ status = 200

\* C6 (as claimed): a discontinuity marker precedes the entry of seq exactly
\* when (seq mod N) < ((seq-1) mod N), for every seq of the window, the first
\* entry included.
C6_MarkerAtEveryWrap ==
    PlaylistServed =>
        \A i \in URIIndexes(playlist) :
            LET seq == EntrySeq(playlist[i])
                n   == seenCount - 1
            IN  MarkerBefore(playlist, i) <=> (seq % n) < ((seq - 1) % n)

\* C6 (amended): a discontinuity marker precedes the entry of seq exactly when
\* seq is not the first entry of the window and (seq mod N) < ((seq-1) mod N);
\* the first entry never carries a marker, also when its chunk index is a wrap;
\* and every marker stands before an entry.
C6_MarkerAtWrapInsideWindow ==
    PlaylistServed =>
        /\ \A i \in URIIndexes(playlist) :
              LET seq == EntrySeq(playlist[i])
                  n   == seenCount - 1
              IN  MarkerBefore(playlist, i) <=>
                      (seq > servedAt /\ (seq % n) < ((seq - 1) % n))
        /\ \A j \in 1..Len(playlist) :
              IsMarker(playlist[j]) =>
                  j + 2 <= Len(playlist) /\ IsURI(playlist[j + 2])

\* a playlist whose first entry is a wrap (no marker there) and that holds a
\* marker further down
C6_Witness ==
    /\ PlaylistServed
    /\ seenCount - 1 > 1
    /\ servedAt % (seenCount - 1) = 0
    /\ \E j \in 1..Len(playlist) : IsMarker(playlist[j])

\* C7: a served media playlist carries media-sequence = now, exactly five
\* entries media.<now>.mp4 .. media.<now+4>.mp4 in increasing order, the
\* reference to the init segment, and no end-of-list marker; it is served
\* only for a usable chunk count N >= 1.
C7_PlaylistShape ==
    PlaylistServed =>
        /\ seenCount - 1 >= 1
        /\ Cardinality({j \in 1..Len(playlist) :
                           playlist[j].tag = "#EXT-X-MEDIA-SEQUENCE:"}) = 1
        /\ \E j \in 1..Len(playlist) :
              /\ playlist[j].tag = "#EXT-X-MEDIA-SEQUENCE:"
              /\ Atoi(playlist[j].val) = [ok |-> TRUE, val |-> servedAt]
        /\ Len(URILines(playlist)) = 5
        /\ \A k \in 1..5 :
              URILines(playlist)[k].val
                  = mediaPrefix \o NatString(servedAt + k - 1) \o mp4Suffix
        /\ \E j \in 1..Len(playlist) :
              playlist[j] = Line("#EXT-X-MAP:URI=", initName)
        /\ \A j \in 1..Len(playlist) : playlist[j].tag # "#EXT-X-ENDLIST"

C7_Witness == PlaylistServed /\ servedAt > 1 /\ seenCount - 1 >= 2

\* the name of physical chunk k < 10, written out
PhysicalChunk(k) == chunkPrefix \o <<"0", "0", DigitChar(k)>> \o mp4Suffix

\* C8: a request for media.<seq>.mp4 with seq >= 0 on a rendition holding
\* count >= 2 chunk files is answered with chunk_<seq mod (count-1)>.mp4; the
\* highest-numbered chunk is never served; every entry of a served playlist
\* maps to a chunk file that exists.
C8_SegmentMapping ==
    /\ (request.kind = "segment" /\ seenDir /\ seenCount >= 2) =>
          LET hlsSeq == Atoi(TrimSuffix(TrimPrefix(request.name, mediaPrefix),
                                        mp4Suffix))
          IN  (hlsSeq.ok /\ hlsSeq.val >= 0) =>
                  /\ status = 200
                  /\ served = PhysicalChunk(hlsSeq.val % (seenCount - 1))
    /\ SegmentServed =>
          /\ served \in dirFiles
          /\ served # PhysicalChunk(seenCount - 1)
    /\ PlaylistServed =>
          \A i \in URIIndexes(playlist) :
              PhysicalChunk(EntrySeq(playlist[i]) % chunkCount(Glob(dirFiles)))
                  \in dirFiles

\* a segment whose sequence number lies beyond the usable chunks was served
C8_Witness ==
    /\ SegmentServed
    /\ Atoi(TrimSuffix(TrimPrefix(request.name, mediaPrefix), mp4Suffix)).val
           >= seenCount
    /\ seenCount >= 3

\* C39: for every sequence number the segment handler accepts, negative
\* ones included, the chunk file name it builds is that of one of the
\* rendition's usable chunks chunk_000 .. chunk_<N-1>, N being the number of
\* chunk files less one.
C39_ChunkIndexInRange ==
    (request.kind = "segment" /\ chunkFile # EmptyString) =>
        chunkFile \in {chunkName(i) : i \in 0..(seenCount - 2)}

-----------------------------------------------------------------------------
(* Artifact discovery: parser.FindExistingVideo, called by Rest.ServeVideo  *)

crf25 == <<"2", "5", "c", "r", "f">>

PregenEntry(w, h, codec, audio, audioBitrate, container) ==
    [Name |-> EmptyString, Width |-> w, Height |-> h, Duration |-> 20,
     Codec |-> codec, FPS |-> 30, Bitrate |-> crf25, AudioCodec |-> audio,
     AudioBitrate |-> audioBitrate, Container |-> container]

DefaultPregenSpecs ==
    <<PregenEntry(854, 480, h264, aac, 96, mp4),
      PregenEntry(1280, 720, h264, aac, 128, mp4),
      PregenEntry(1920, 1080, h264, aac, 128, mp4),
      PregenEntry(854, 480, av1, opus, 96, webm),
      PregenEntry(1280, 720, av1, opus, 128, webm),
      PregenEntry(1920, 1080, av1, opus, 128, webm),
      PregenEntry(854, 480, vp9, opus, 96, webm),
      PregenEntry(1280, 720, vp9, opus, 128, webm),
      PregenEntry(1920, 1080, vp9, opus, 128, webm)>>

\* the files of <video-root>/<clip>/: PregenerateVideos sets spec.Name to the
\* clip and Transcode writes GenerateFilename(spec) into the clip's directory
VideoDir(clip) ==
    {GenerateFilename([DefaultPregenSpecs[i] EXCEPT !.Name = clip]) :
        i \in 1..pregenCount[clip]}

VideoPath(clip, name) == [tier |-> "video", dir |-> clip, file |-> name]
TmpPath(name) == [tier |-> "tmp", dir |-> EmptyString, file |-> name]
\* filepath.Join(config.AppPaths.Video, filename): a file under no clip
RootPath(name) == [tier |-> "root", dir |-> EmptyString, file |-> name]

\* os.Stat(path) succeeds
Exists(path) ==
    \/ path.tier = "video" /\ path.dir \in getSourceFileNames
                           /\ path.file \in VideoDir(path.dir)
    \/ path.tier = "tmp" /\ path.file \in tmpFiles
    \/ path.tier = "root" /\ path.file \in rootFiles

FindExistingVideoTmpFirst(name, s) ==
    LET pregenPath == VideoPath(s.Name, name)
        tmpPath    == TmpPath(name)
    IN  IF Exists(tmpPath)
        THEN [checked |-> <<tmpPath>>, path |-> tmpPath]
        ELSE IF Exists(pregenPath)
        THEN [checked |-> <<tmpPath, pregenPath>>, path |-> pregenPath]
        ELSE [checked |-> <<tmpPath, pregenPath>>, path |-> NoPath]

FindExistingVideo(name, s) ==
    LET pregenPath == VideoPath(s.Name, name)
        tmpPath    == TmpPath(name)
    IN  IF Exists(pregenPath)
        THEN [checked |-> <<pregenPath>>, path |-> pregenPath]
        ELSE IF Exists(tmpPath)
        THEN [checked |-> <<pregenPath, tmpPath>>, path |-> tmpPath]
        ELSE [checked |-> <<pregenPath, tmpPath>>, path |-> NoPath]

\* the request tokens of the clients
Requests ==
    { bunny, cat, big_buck,
      cat \o <<"_">> \o <<"4", "8", "0", "p">> \o <<"_">> \o <<"9", "6", "k", "b", "p", "s">>,
      cat \o <<"_">> \o <<"5", "s">> }

FindInit == ParserIdle /\ ServiceIdle /\ HLSIdle /\ FindIdle /\ RequestIdle /\ PregenIdle /\ TierIdle
    /\ TokenIdle /\ FieldIdle /\ StreamIdle /\ StartupIdle

\* PregenerateVideos: the Transcode of the clip's next catalog entry succeeds
PregenerateVideo(clip) ==
    /\ pregenCount[clip] < MaxPregen
    /\ pregenCount[clip] < Len(DefaultPregenSpecs)
    /\ pregenCount' = [pregenCount EXCEPT ![clip] = @ + 1]
    /\ UNCHANGED <<tmpFiles, findFilename, findName, heldBy, inTmp, checked,
                   existingPath, rootFiles, created>>
    /\ UNCHANGED asked
    /\ UNCHANGED notFindVars

\* Rest.ServeVideo: parse, apply the defaults, render, look for the file; on a
\* miss Transcode encodes into <scratch-root>, which leaves the file there when
\* ffmpeg succeeds
ServeVideo(params, encodeOk) ==
    LET inputParams == ParseFilename(params)
        s     == ApplyDefaultVideoSpec(inputParams.spec)
        name  == GenerateFilename(s)
        found == FindExistingVideo(name, s)
    IN  /\ ~inputParams.err
        /\ findFilename' = name
        /\ findName' = s.Name
        /\ heldBy' = {c \in getSourceFileNames : name \in VideoDir(c)}
        /\ inTmp' = (name \in tmpFiles)
        /\ checked' = found.checked
        /\ existingPath' = found.path
        /\ tmpFiles' = IF found.path = NoPath /\ encodeOk
                       THEN tmpFiles \cup {name} ELSE tmpFiles
        /\ UNCHANGED <<pregenCount, rootFiles, created>>
        /\ UNCHANGED asked
        /\ UNCHANGED notFindVars

FindNext ==
    \/ \E clip \in getSourceFileNames : PregenerateVideo(clip)
    \/ \E params \in Requests, encodeOk \in BOOLEAN : ServeVideo(params, encodeOk)

FindSpec == FindInit /\ [][FindNext]_vars

Range(seq) == {seq[i] : i \in 1..Len(seq)}

\* C10 (as claimed): FindExistingVideo checks <video-root>/<clip>/<filename>
\* for every known source clip, not only the clip named in the spec, and
\* returns the first hit; it returns the scratch path only when no clip
\* directory holds the file, and not-found exactly when neither tier does.
C10_ChecksEveryClip ==
    findFilename # EmptyString =>
        /\ (existingPath.tier # "video" =>
               \A c \in getSourceFileNames :
                   VideoPath(c, findFilename) \in Range(checked))
        /\ (heldBy # {} => existingPath.tier = "video" /\ existingPath.dir \in heldBy)
        /\ (heldBy = {} /\ inTmp => existingPath = TmpPath(findFilename))
        /\ (existingPath = NoPath <=> (heldBy = {} /\ ~inTmp))

\* C10 (amended): FindExistingVideo(filename, spec) checks only
\* <video-root>/<spec.Name>/<filename>, the directory of the clip named in the
\* spec, and returns it on a hit; otherwise it returns
\* <scratch-root>/<filename> if that exists; otherwise not-found.  The
\* pregenerated copy in the named clip's directory takes precedence over a
\* scratch copy; no other clip's directory is looked at.
C10_ChecksNamedClipThenScratch ==
    findFilename # EmptyString =>
        /\ checked[1] = VideoPath(findName, findFilename)
        /\ Range(checked) \subseteq
               {VideoPath(findName, findFilename), TmpPath(findFilename)}
        /\ existingPath =
               IF findName \in heldBy THEN VideoPath(findName, findFilename)
               ELSE IF inTmp THEN TmpPath(findFilename)
               ELSE NoPath

\* the file is in the named clip's directory and in scratch: the pregenerated
\* copy is returned
C10_Witness ==
    /\ findFilename # EmptyString
    /\ findName \in heldBy /\ inTmp
    /\ existingPath = VideoPath(findName, findFilename)

-----------------------------------------------------------------------------
(* The entry points that create artifacts: PregenerateVideos, Rest.ServeVideo *)
(* and Rest.Transcode (VideoService.TranscodeFromParams)                    *)

\* the request tokens of the two handlers
EntryRequests ==
    { bunny,
      cat \o <<"_">> \o <<"4", "8", "0", "p">> \o <<"_">> \o <<"9", "6", "k", "b", "p", "s">> }

EntryInit ==
    /\ ParserIdle /\ ServiceIdle /\ HLSIdle /\ FindIdle /\ RequestIdle
    /\ PregenIdle /\ TierIdle /\ TokenIdle /\ FieldIdle /\ StreamIdle /\ StartupIdle

\* PregenerateVideos: Transcode(ctx, spec, inputPath, outputDir) of the clip's
\* next catalog entry, outputDir being <video-root>/<clip>
EntryPregenerate(clip, encodeOk) ==
    LET s    == [DefaultPregenSpecs[pregenCount[clip] + 1] EXCEPT !.Name = clip]
        name == GenerateFilename(s)
    IN  /\ pregenCount[clip] < MaxPregen
        /\ pregenCount[clip] < Len(DefaultPregenSpecs)
        /\ pregenCount' = IF encodeOk THEN [pregenCount EXCEPT ![clip] = @ + 1]
                          ELSE pregenCount
        /\ created' = IF encodeOk
                      THEN [by |-> "pregeneration", name |-> s.Name,
                            path |-> VideoPath(clip, name)]
                      ELSE NoCreated
        /\ UNCHANGED <<tmpFiles, findFilename, findName, heldBy, inTmp, checked,
                       existingPath, rootFiles>>
        /\ UNCHANGED asked
        /\ UNCHANGED notFindVars

\* Rest.ServeVideo on a miss: Transcode(..., config.AppPaths.Tmp)
EntryServeVideo(params, encodeOk) ==
    LET inputParams == ParseFilename(params)
        s     == ApplyDefaultVideoSpec(inputParams.spec)
        name  == GenerateFilename(s)
        found == FindExistingVideo(name, s)
    IN  /\ ~inputParams.err
        /\ found.path = NoPath
        /\ tmpFiles' = IF encodeOk THEN tmpFiles \cup {name} ELSE tmpFiles
        /\ created' = IF encodeOk
                      THEN [by |-> "request", name |-> s.Name,
                            path |-> TmpPath(name)]
                      ELSE NoCreated
        /\ UNCHANGED <<pregenCount, findFilename, findName, heldBy, inTmp,
                       checked, existingPath, rootFiles>>
        /\ UNCHANGED asked
        /\ UNCHANGED notFindVars

\* TranscodeFromParams: outputPath := config.AppPaths.Video, and Transcode
\* joins it with the generated filename
TranscodeOutput(name) == RootPath(name)

\* Rest.Transcode: TranscodeFromParams parses, defaults and calls Transcode,
\* which encodes unless the output file is already there
EntryTranscode(params, encodeOk) ==
    LET inputParams == ParseFilename(params)
        s    == ApplyDefaultVideoSpec(inputParams.spec)
        name == GenerateFilename(s)
        out  == TranscodeOutput(name)
    IN  /\ ~inputParams.err
        /\ ~Exists(out)
        /\ rootFiles' = IF encodeOk /\ out.tier = "root"
                        THEN rootFiles \cup {name} ELSE rootFiles
        /\ tmpFiles' = IF encodeOk /\ out.tier = "tmp"
                       THEN tmpFiles \cup {name} ELSE tmpFiles
        /\ created' = IF encodeOk
                      THEN [by |-> "transcode", name |-> s.Name, path |-> out]
                      ELSE NoCreated
        /\ UNCHANGED <<pregenCount, findFilename, findName, heldBy, inTmp,
                       checked, existingPath>>
        /\ UNCHANGED asked
        /\ UNCHANGED notFindVars

\* Rest.ServeVideo asked for a pregenerated artifact by the file name
\* PregenerateVideos wrote for the clip's i-th catalog entry
RequestArtifact(clip, i, encodeOk) ==
    LET params      == GenerateFilename([DefaultPregenSpecs[i] EXCEPT !.Name = clip])
        inputParams == ParseFilename(params)
        s     == ApplyDefaultVideoSpec(inputParams.spec)
        name  == GenerateFilename(s)
        found == FindExistingVideo(name, s)
    IN  /\ i <= pregenCount[clip]
        /\ ~inputParams.err
        /\ asked' = [clip |-> clip, file |-> params]
        /\ findFilename' = name
        /\ findName' = s.Name
        /\ heldBy' = {c \in getSourceFileNames : name \in VideoDir(c)}
        /\ inTmp' = (name \in tmpFiles)
        /\ checked' = found.checked
        /\ existingPath' = found.path
        /\ tmpFiles' = IF found.path = NoPath /\ encodeOk
                       THEN tmpFiles \cup {name} ELSE tmpFiles
        /\ UNCHANGED <<pregenCount, rootFiles, created>>
        /\ UNCHANGED notFindVars

EntryNext ==
    \/ \E clip \in getSourceFileNames, encodeOk \in BOOLEAN :
          EntryPregenerate(clip, encodeOk)
    \/ \E params \in EntryRequests, encodeOk \in BOOLEAN :
          EntryServeVideo(params, encodeOk)
    \/ \E params \in EntryRequests, encodeOk \in BOOLEAN :
          EntryTranscode(params, encodeOk)

EntrySpec == EntryInit /\ [][EntryNext]_vars

\* C31: every artifact file the orchestrator creates, from any entry point
\* (startup pregeneration, on-demand video request, the transcode endpoint),
\* lies in <video-root>/<clip>/ or in the scratch directory, and is found by
\* FindExistingVideo for the spec that produced it.
C31_CreatedArtifactsDiscoverable ==
    created.by # "none" =>
        /\ created.path.tier \in {"video", "tmp"}
        /\ FindExistingVideo(created.path.file, [Name |-> created.name]).path
              # NoPath

ArtifactInit ==
    /\ ParserIdle /\ ServiceIdle /\ HLSIdle /\ FindIdle /\ RequestIdle
    /\ PregenIdle /\ TierIdle /\ TokenIdle /\ FieldIdle /\ StreamIdle /\ StartupIdle

ArtifactNext ==
    \/ \E clip \in getSourceFileNames : PregenerateVideo(clip)
    \/ \E clip \in getSourceFileNames, i \in 1..MaxPregen, encodeOk \in BOOLEAN :
          RequestArtifact(clip, i, encodeOk)

ArtifactSpec == ArtifactInit /\ [][ArtifactNext]_vars

\* C38: every pregenerated artifact is reachable by its own name -- a
\* request whose token is the file name pregeneration wrote for clip c and
\* catalog entry e resolves back to clip c and is answered as a cache hit
\* with that file from <video-root>/c/, also when c's base name contains an
\* underscore.
C38_PregeneratedReachableByName ==
    asked # NoAsked =>
        /\ findName = asked.clip
        /\ existingPath = VideoPath(asked.clip, asked.file)

-----------------------------------------------------------------------------
(* Concurrent ServeVideo requests that resolve to one canonical filename:   *)
(* Rest.ServeVideo, parser.FindExistingVideo, VideoService.Transcode        *)

\* a file some earlier process left behind: nothing, an undersized file from a
\* crash mid-write, or a finished artifact
Leftovers ==
    { NoArtifact,
      [exists |-> TRUE, size |-> 0, complete |-> FALSE, writer |-> "none"],
      [exists |-> TRUE, size |-> MinFileSize, complete |-> FALSE, writer |-> "none"],
      [exists |-> TRUE, size |-> MinFileSize + 1, complete |-> TRUE, writer |-> "none"] }

\* what a reader of the file gets
Class(f) ==
    IF ~f.exists THEN "notfound"
    ELSE IF f.complete THEN "complete"
    ELSE IF f.size <= MinFileSize THEN "undersized"
    ELSE "partial"

RequestInit ==
    /\ ParserIdle /\ ServiceIdle /\ HLSIdle /\ FindIdle /\ PregenIdle /\ TierIdle
    /\ TokenIdle /\ FieldIdle /\ StreamIdle /\ StartupIdle
    /\ pregenFile \in Leftovers
    /\ scratch \in Leftovers
    /\ rqPc = [r \in Slots |-> "idle"]
    /\ rqSaw = [r \in Slots |-> NoArtifact]
    /\ rqStat = [r \in Slots |-> NoArtifact]
    /\ rqStarted = [r \in Slots |-> FALSE]
    /\ rqServed = [r \in Slots |-> "nothing"]
    /\ rqStatus = [r \in Slots |-> 0]

\* FindExistingVideo: os.Stat of the pregenerated path, then of the scratch
\* path; err == nil is the only test
ExistingArtifactCompleteOnly(pregen, tmp) ==
    IF pregen.exists /\ pregen.complete THEN "servePregen"
    ELSE IF tmp.exists /\ tmp.complete THEN "serveScratch"
    ELSE "transcode"

ExistingArtifactPregenOnly(pregen, tmp) ==
    IF pregen.exists THEN "servePregen" ELSE "transcode"

ExistingArtifact(pregen, tmp) ==
    IF pregen.exists THEN "servePregen"
    ELSE IF tmp.exists THEN "serveScratch"
    ELSE "transcode"

\* ServeVideo up to "if existingPath != """; rqSaw records the first file in
\* the search order as it was on disk at that moment
Discover(r) ==
    /\ rqPc[r] = "idle"
    /\ rqSaw' = [rqSaw EXCEPT ![r] = IF pregenFile.exists THEN pregenFile ELSE scratch]
    /\ rqPc' = [rqPc EXCEPT ![r] = ExistingArtifact(pregenFile, scratch)]
    /\ UNCHANGED <<pregenFile, scratch, rqStat, rqStarted, rqServed, rqStatus>>
    /\ UNCHANGED notRequestVars

\* http.ServeFile(w, r, existingPath): the file is opened and sent as it is now
ServeFile(r) ==
    /\ rqPc[r] \in {"servePregen", "serveScratch"}
    /\ rqServed' = [rqServed EXCEPT ![r] =
           IF rqPc[r] = "servePregen" THEN Class(pregenFile) ELSE Class(scratch)]
    /\ rqStatus' = [rqStatus EXCEPT ![r] =
           IF (IF rqPc[r] = "servePregen" THEN pregenFile ELSE scratch).exists
           THEN StatusOK ELSE StatusNotFound]
    /\ rqPc' = [rqPc EXCEPT ![r] = "done"]
    /\ UNCHANGED <<pregenFile, scratch, rqSaw, rqStat, rqStarted>>
    /\ UNCHANGED notRequestVars

\* Transcode(backgroundCtx, spec, inputPath, Tmp): os.Stat(fullOutputPath)
TranscodeStat(r) ==
    /\ rqPc[r] = "transcode"
    /\ rqStat' = [rqStat EXCEPT ![r] = scratch]
    /\ rqPc' = [rqPc EXCEPT ![r] =
           LET next == AfterStat(scratch.exists, scratch.size)
           IN  IF next = "sendResult" THEN "deliver" ELSE next]
    /\ UNCHANGED <<pregenFile, scratch, rqSaw, rqStarted, rqServed, rqStatus>>
    /\ UNCHANGED notRequestVars

\* os.Remove(fullOutputPath): whatever is at the path now is unlinked
RemoveUndersized(r) ==
    /\ rqPc[r] = "remove"
    /\ scratch' = NoArtifact
    /\ rqPc' = [rqPc EXCEPT ![r] = "encode"]
    /\ UNCHANGED <<pregenFile, rqSaw, rqStat, rqStarted, rqServed, rqStatus>>
    /\ UNCHANGED notRequestVars

\* the goroutine runs ffmpeg; nothing looks at the encodes of other requests
StartEncoderDeduplicated(r) ==
    /\ rqPc[r] = "encode"
    /\ IF \E o \in Slots \ {r} : rqPc[o] \in {"starting", "writing"}
       THEN /\ rqPc' = [rqPc EXCEPT ![r] = "deliver"]
            /\ UNCHANGED rqStarted
       ELSE /\ rqStarted' = [rqStarted EXCEPT ![r] = TRUE]
            /\ rqPc' = [rqPc EXCEPT ![r] = "starting"]
    /\ UNCHANGED <<pregenFile, scratch, rqSaw, rqStat, rqServed, rqStatus>>
    /\ UNCHANGED notRequestVars

StartEncoder(r) ==
    /\ rqPc[r] = "encode"
    /\ rqStarted' = [rqStarted EXCEPT ![r] = TRUE]
    /\ rqPc' = [rqPc EXCEPT ![r] = "starting"]
    /\ UNCHANGED <<pregenFile, scratch, rqSaw, rqStat, rqServed, rqStatus>>
    /\ UNCHANGED notRequestVars

\* ffmpeg, run without -y and without a terminal, refuses to overwrite: it
\* exits non-zero when the output exists, and creates the output otherwise
OpenOutput(r) ==
    /\ rqPc[r] = "starting"
    /\ IF scratch.exists
       THEN /\ rqPc' = [rqPc EXCEPT ![r] = "failed"]
            /\ UNCHANGED scratch
       ELSE /\ scratch' = [exists |-> TRUE, size |-> 0, complete |-> FALSE, writer |-> r]
            /\ rqPc' = [rqPc EXCEPT ![r] = "writing"]
    /\ UNCHANGED <<pregenFile, rqSaw, rqStat, rqStarted, rqServed, rqStatus>>
    /\ UNCHANGED notRequestVars

\* ffmpeg appends to its output; after an unlink it writes to a file that is
\* no longer at the path
WriteOutput(r) ==
    /\ rqPc[r] = "writing"
    /\ scratch.exists /\ scratch.writer = r
    /\ \E n \in FileSizes :
          /\ n > scratch.size
          /\ scratch' = [scratch EXCEPT !.size = n]
    /\ UNCHANGED <<pregenFile, rqPc, rqSaw, rqStat, rqStarted, rqServed, rqStatus>>
    /\ UNCHANGED notRequestVars

\* cmd.Run returns nil
ExitOk(r) ==
    /\ rqPc[r] = "writing"
    /\ scratch' = IF scratch.exists /\ scratch.writer = r
                  THEN [scratch EXCEPT !.size = MinFileSize + 1, !.complete = TRUE]
                  ELSE scratch
    /\ rqPc' = [rqPc EXCEPT ![r] = "deliver"]
    /\ UNCHANGED <<pregenFile, rqSaw, rqStat, rqStarted, rqServed, rqStatus>>
    /\ UNCHANGED notRequestVars

\* cmd.Run returns an error; the output stays as it is
ExitFail(r) ==
    /\ rqPc[r] = "writing"
    /\ rqPc' = [rqPc EXCEPT ![r] = "failed"]
    /\ UNCHANGED <<pregenFile, scratch, rqSaw, rqStat, rqStarted, rqServed, rqStatus>>
    /\ UNCHANGED notRequestVars

\* ServeVideo calls w.WriteHeader(http.StatusOK) as soon as Transcode has
\* returned its channels, before streamPartialFile looks at them
StreamStatus(failed) == StatusOK

\* streamPartialFile returns: after resultCh the rest of the file has been
\* streamed, after errCh the response ends where it was; the status was
\* written before the streaming began
StreamEnds(r) ==
    /\ rqPc[r] \in {"deliver", "failed"}
    /\ rqServed' = [rqServed EXCEPT ![r] =
           IF rqPc[r] = "deliver" THEN "stream" ELSE "truncated"]
    /\ rqStatus' = [rqStatus EXCEPT ![r] = StreamStatus(rqPc[r] = "failed")]
    /\ rqPc' = [rqPc EXCEPT ![r] = "done"]
    /\ UNCHANGED <<pregenFile, scratch, rqSaw, rqStat, rqStarted>>
    /\ UNCHANGED notRequestVars

\* the client sends its next request for the same filename
NextRequest(r) ==
    /\ rqPc[r] = "done"
    /\ rqPc' = [rqPc EXCEPT ![r] = "idle"]
    /\ rqSaw' = [rqSaw EXCEPT ![r] = NoArtifact]
    /\ rqStat' = [rqStat EXCEPT ![r] = NoArtifact]
    /\ rqStarted' = [rqStarted EXCEPT ![r] = FALSE]
    /\ rqServed' = [rqServed EXCEPT ![r] = "nothing"]
    /\ rqStatus' = [rqStatus EXCEPT ![r] = 0]
    /\ UNCHANGED <<pregenFile, scratch>>
    /\ UNCHANGED notRequestVars

RequestNext ==
    \E r \in Slots :
        \/ Discover(r)
        \/ ServeFile(r)
        \/ TranscodeStat(r)
        \/ RemoveUndersized(r)
        \/ StartEncoder(r)
        \/ OpenOutput(r)
        \/ WriteOutput(r)
        \/ ExitOk(r)
        \/ ExitFail(r)
        \/ StreamEnds(r)
        \/ NextRequest(r)

RequestSpec == RequestInit /\ [][RequestNext]_vars

ServePositions == {"servePregen", "serveScratch"}
EncoderInFlight == {"starting", "writing"}

\* C11: a request whose canonical file exists in the pregenerated or the
\* scratch directory but is undersized (at most 1024 bytes) is answered by
\* regenerating the artifact; the undersized file is never served.
C11_UndersizedNeverServed ==
    \A r \in Slots :
        /\ rqServed[r] # "undersized"
        /\ (rqSaw[r].exists /\ rqSaw[r].size <= MinFileSize) =>
               /\ rqPc[r] \notin ServePositions
               /\ (rqPc[r] = "done" => rqStarted[r])

\* C17: there is no per-key de-duplication -- every request that missed both
\* discovery and Transcode's cache check starts its own encoder for the
\* output path, whatever other encodes are in flight for it.
C17_NoDeduplication ==
    \A r \in Slots :
        (/\ ~rqSaw[r].exists /\ ~rqStat[r].exists
         /\ rqPc[r] \in EncoderInFlight \cup {"deliver", "failed", "done"})
            => rqStarted[r]

\* two requests missed the cache and both their encoders are in flight
C17_Witness ==
    \A r \in Slots :
        /\ ~rqSaw[r].exists /\ ~rqStat[r].exists
        /\ rqStarted[r] /\ rqPc[r] \in EncoderInFlight

\* C18: discovery treats any existing file as the artifact -- a request that
\* finds a file at the path, finished or still being written, is answered by
\* serving that file and neither waits for nor starts an encode.
C18_PartialFileIsAHit ==
    \A r \in Slots :
        rqSaw[r].exists =>
            /\ rqPc[r] \in ServePositions \cup {"done"}
            /\ rqStat[r] = NoArtifact /\ ~rqStarted[r]
            /\ rqServed[r] \in {"nothing", "notfound", "undersized", "partial", "complete"}

\* a request found the file another request's encoder was still writing and
\* was served the truncated file
C18_Witness ==
    \E r \in Slots : \E w \in Slots \ {r} :
        /\ rqPc[w] = "writing"
        /\ rqSaw[r].exists /\ ~rqSaw[r].complete /\ rqSaw[r].writer = w
        /\ rqPc[r] = "done" /\ rqServed[r] \in {"undersized", "partial"}

\* C20: once an on-demand encode has completed successfully, a later request
\* for the same canonical filename that finds the file is answered from the
\* file and never starts the encoder.
C20_CachedAfterFirstRequest ==
    \A r \in Slots :
        (rqSaw[r].complete /\ rqSaw[r].writer \in Slots) =>
            /\ ~rqStarted[r] /\ rqStat[r] = NoArtifact
            /\ rqPc[r] \in {"serveScratch", "done"}
            /\ rqServed[r] \notin {"stream", "truncated"}

\* a later request was served the file a finished on-demand encode produced
C20_Witness ==
    \E r \in Slots :
        /\ rqSaw[r].complete /\ rqSaw[r].writer \in Slots \ {r}
        /\ rqPc[r] = "done" /\ rqServed[r] = "complete" /\ ~rqStarted[r]

\* C21: a non-zero encoder exit during an on-demand video request is
\* surfaced to the client as a server error -- a request whose encode failed
\* never gets a success status.
C21_EncodeFailureIsServerError ==
    \A r \in Slots :
        (rqPc[r] = "done" /\ rqServed[r] = "truncated") =>
            rqStatus[r] = StatusInternalServerError

-----------------------------------------------------------------------------
(* rest: the miss path of Rest.ServeVideo -- streamPartialFile and           *)
(* streamRemainingFile beside the goroutine of VideoService.Transcode      *)

\* the longest file the encoder writes, in bytes
MaxBytes == 3

\* "for i := 0; i < 50; i++": the os.Open attempts, scaled down
OpenTries == 2

\* "buffer := make([]byte, 64*1024)": one Read returns at most this many
\* bytes, scaled down
BufferSize == 2

\* ServeVideo: "backgroundCtx := context.Background()" is what Transcode gets
TranscodeContextOfRequest == "request"

TranscodeContext == "background"

\* ctx.Done() is closed: context.Background() is never done, r.Context() is
\* done once the client has gone
Done(ctx) == ctx = "request" /\ stGone

Min(a, b) == IF a <= b THEN a ELSE b

\* the file offsets first+1 .. last, in order
Offsets(first, last) == [i \in 1..(last - first) |-> first + i]

\* a receive from the channel does not block
Ready(ch) == ch.buf > 0 \/ ch.closed

StreamInit ==
    /\ ParserIdle /\ ServiceIdle /\ HLSIdle /\ FindIdle /\ RequestIdle
    /\ PregenIdle /\ TierIdle /\ TokenIdle /\ FieldIdle /\ StartupIdle
    /\ stFinal \in 1..MaxBytes
    /\ stExists = FALSE
    /\ stLen = 0
    /\ stExit = "none"
    /\ stGo = "run"
    /\ stResultCh = NoChannel
    /\ stErrCh = NoChannel
    /\ stGone = FALSE
    /\ stPc = "open"
    /\ stTries = 0
    /\ stLastPos = 0
    /\ stSent = << >>
    /\ stReturn = "none"

\* exec.CommandContext(ctx, "ffmpeg", ...): a done ctx kills the process,
\* cmd.Run returns the error and the goroutine sends it on errCh
KilledByContext ==
    /\ stExit' = "killed"
    /\ stErrCh' = [stErrCh EXCEPT !.buf = 1]
    /\ stGo' = "sent"
    /\ UNCHANGED <<stExists, stLen, stResultCh>>

\* ffmpeg creates the output file
FfmpegCreates ==
    /\ stGo = "run"
    /\ ~stExists
    /\ IF Done(TranscodeContext)
       THEN KilledByContext
       ELSE /\ stExists' = TRUE
            /\ UNCHANGED <<stLen, stExit, stGo, stResultCh, stErrCh>>
    /\ UNCHANGED <<stFinal, stGone, stPc, stTries, stLastPos, stSent, stReturn>>
    /\ UNCHANGED notStreamVars

\* ffmpeg appends to the output file
FfmpegWrites ==
    /\ stGo = "run"
    /\ stExists
    /\ stLen < stFinal
    /\ IF Done(TranscodeContext)
       THEN KilledByContext
       ELSE /\ stLen' = stLen + 1
            /\ UNCHANGED <<stExists, stExit, stGo, stResultCh, stErrCh>>
    /\ UNCHANGED <<stFinal, stGone, stPc, stTries, stLastPos, stSent, stReturn>>
    /\ UNCHANGED notStreamVars

\* cmd.Run returns nil: "resultCh <- fullOutputPath"
FfmpegExitsOk ==
    /\ stGo = "run"
    /\ stExists
    /\ stLen = stFinal
    /\ IF Done(TranscodeContext)
       THEN KilledByContext
       ELSE /\ stExit' = "ok"
            /\ stResultCh' = [stResultCh EXCEPT !.buf = 1]
            /\ stGo' = "sent"
            /\ UNCHANGED <<stExists, stLen, stErrCh>>
    /\ UNCHANGED <<stFinal, stGone, stPc, stTries, stLastPos, stSent, stReturn>>
    /\ UNCHANGED notStreamVars

\* cmd.Run returns an error of ffmpeg's own: "errCh <- fmt.Errorf(...)";
\* what was written stays
FfmpegExitsFail ==
    /\ stGo = "run"
    /\ stLen < stFinal
    /\ stExit' = "failed"
    /\ stErrCh' = [stErrCh EXCEPT !.buf = 1]
    /\ stGo' = "sent"
    /\ UNCHANGED <<stExists, stLen, stResultCh>>
    /\ UNCHANGED <<stFinal, stGone, stPc, stTries, stLastPos, stSent, stReturn>>
    /\ UNCHANGED notStreamVars

\* the goroutine returns: "defer close(errCh)" runs first
DeferredCloseErrCh ==
    /\ stGo = "sent"
    /\ stErrCh' = [stErrCh EXCEPT !.closed = TRUE]
    /\ stGo' = "errClosed"
    /\ UNCHANGED <<stFinal, stExists, stLen, stExit, stResultCh, stGone, stPc,
                   stTries, stLastPos, stSent, stReturn>>
    /\ UNCHANGED notStreamVars

\* then "defer close(resultCh)"
DeferredCloseResultCh ==
    /\ stGo = "errClosed"
    /\ stResultCh' = [stResultCh EXCEPT !.closed = TRUE]
    /\ stGo' = "done"
    /\ UNCHANGED <<stFinal, stExists, stLen, stExit, stErrCh, stGone, stPc,
                   stTries, stLastPos, stSent, stReturn>>
    /\ UNCHANGED notStreamVars

\* the client closes the connection while the handler runs
Disconnect ==
    /\ stPc \notin {"off", "returned"}
    /\ ~stGone
    /\ stGone' = TRUE
    /\ UNCHANGED <<stFinal, stExists, stLen, stExit, stGo, stResultCh, stErrCh,
                   stPc, stTries, stLastPos, stSent, stReturn>>
    /\ UNCHANGED notStreamVars

\* streamPartialFile returns
Return(branch) ==
    /\ stPc' = "returned"
    /\ stReturn' = branch

\* one round of "for i := 0; i < 50; i++ { if f, err := os.Open(filePath) ..."
OpenFile ==
    /\ stPc = "open"
    /\ IF stExists
       THEN /\ stPc' = "loop"
            /\ UNCHANGED <<stTries, stReturn>>
       ELSE /\ stTries' = stTries + 1
            /\ IF stTries + 1 >= OpenTries
               THEN Return("nofile")
               ELSE UNCHANGED <<stPc, stReturn>>
    /\ UNCHANGED <<stFinal, stExists, stLen, stExit, stGo, stResultCh, stErrCh,
                   stGone, stLastPos, stSent>>
    /\ UNCHANGED notStreamVars

\* the head of the loop: "select { case <-requestCtx.Done(): ... return"
CheckRequest ==
    /\ stPc = "loop"
    /\ IF stGone
       THEN Return("disconnected")
       ELSE /\ stPc' = "select"
            /\ UNCHANGED stReturn
    /\ UNCHANGED <<stFinal, stExists, stLen, stExit, stGo, stResultCh, stErrCh,
                   stGone, stTries, stLastPos, stSent>>
    /\ UNCHANGED notStreamVars

\* streamRemainingFile: Seek(*lastPos), then Read and Write up to io.EOF
streamRemainingFile(lastPos) == Offsets(lastPos, stLen)

\* "case <-resultCh": a value or the zero value of the closed channel
SelectResultCh ==
    /\ stPc = "select"
    /\ Ready(stResultCh)
    /\ stResultCh' = [stResultCh EXCEPT !.buf = 0]
    /\ IF stGone
       THEN /\ Return("disconnected")
            /\ UNCHANGED stSent
       ELSE /\ stSent' = stSent \o streamRemainingFile(stLastPos)
            /\ Return("result")
    /\ UNCHANGED <<stFinal, stExists, stLen, stExit, stGo, stErrCh, stGone,
                   stTries, stLastPos>>
    /\ UNCHANGED notStreamVars

\* "case err := <-errCh": an error or the nil of the closed channel
SelectErrCh ==
    /\ stPc = "select"
    /\ Ready(stErrCh)
    /\ stErrCh' = [stErrCh EXCEPT !.buf = 0]
    /\ Return("error")
    /\ UNCHANGED <<stFinal, stExists, stLen, stExit, stGo, stResultCh, stGone,
                   stTries, stLastPos, stSent>>
    /\ UNCHANGED notStreamVars

\* "default: // Continue streaming partial content"
SelectDefault ==
    /\ stPc = "select"
    /\ ~Ready(stResultCh)
    /\ ~Ready(stErrCh)
    /\ stPc' = "read"
    /\ UNCHANGED <<stFinal, stExists, stLen, stExit, stGo, stResultCh, stErrCh,
                   stGone, stTries, stLastPos, stSent, stReturn>>
    /\ UNCHANGED notStreamVars

\* "if stat.Size() > lastPos { file.Seek(lastPos, 0); n, err := file.Read(buffer)
\* ... w.Write(buffer[:n]) ... lastPos += int64(n) }"
ReadNewContent ==
    /\ stPc = "read"
    /\ IF stLen > stLastPos
       THEN LET n == Min(BufferSize, stLen - stLastPos)
            IN  IF stGone
                THEN /\ Return("disconnected")
                     /\ UNCHANGED <<stSent, stLastPos>>
                ELSE /\ stSent' = stSent \o Offsets(stLastPos, stLastPos + n)
                     /\ stLastPos' = stLastPos + n
                     /\ stPc' = "loop"
                     /\ UNCHANGED stReturn
       ELSE /\ stPc' = "loop"
            /\ UNCHANGED <<stSent, stLastPos, stReturn>>
    /\ UNCHANGED <<stFinal, stExists, stLen, stExit, stGo, stResultCh, stErrCh,
                   stGone, stTries>>
    /\ UNCHANGED notStreamVars

EncoderNext ==
    \/ FfmpegCreates
    \/ FfmpegWrites
    \/ FfmpegExitsOk
    \/ FfmpegExitsFail
    \/ DeferredCloseErrCh
    \/ DeferredCloseResultCh

HandlerNext ==
    \/ OpenFile
    \/ CheckRequest
    \/ SelectResultCh
    \/ SelectErrCh
    \/ SelectDefault
    \/ ReadNewContent

StreamNext == EncoderNext \/ HandlerNext \/ Disconnect

StreamSpec == StreamInit /\ [][StreamNext]_vars

\* the goroutine of Transcode and the handler's goroutine are both scheduled,
\* and ffmpeg runs on; nothing makes a client disconnect
StreamFairSpec ==
    StreamSpec /\ WF_vars(EncoderNext) /\ WF_vars(HandlerNext)

\* C35: in the miss path of ServeVideo the encode runs under a context that
\* is independent of the request.  A client disconnect ends the streaming
\* loop (the handler returns), it never kills the encoder, the encoder runs
\* on until it succeeds or fails of its own, and after a success the complete
\* artifact is on disk for later requests.
C35_EncodeOutlivesTheClient ==
    /\ [](stExit # "killed")
    /\ [](stExit = "ok" => stExists /\ stLen = stFinal)
    /\ (stGone ~> stPc = "returned")
    /\ (stGo = "run" ~> stExit \in {"ok", "failed"})

\* the client left before the file was complete, the handler returned and
\* the encoder went on to finish the file
C35_Witness ==
    /\ stReturn = "disconnected"
    /\ Len(stSent) < stFinal
    /\ stExit = "ok"
    /\ stLen = stFinal

\* C40: while the file is still being encoded streamPartialFile sends its
\* bytes in file order, each once and without gaps: what has been sent is
\* always a prefix of the file, and lastPos never decreases.  If the client
\* stays connected until the encode has succeeded, the client has received
\* the complete final file when the handler returns.
C40_StreamsTheWholeFile ==
    /\ [](stSent = Offsets(0, Len(stSent)) /\ Len(stSent) <= stLen)
    /\ [][stLastPos' >= stLastPos]_vars
    /\ [](stReturn \in {"result", "error"} /\ ~stGone /\ stExit = "ok"
             => stSent = Offsets(0, stFinal))

-----------------------------------------------------------------------------
(* service: rendition pregeneration -- StartupPregeneration,                *)
(* PregenerateAllVideos, PregenerateVideos                                  *)

PregenInit ==
    /\ ParserIdle /\ ServiceIdle /\ HLSIdle /\ FindIdle /\ RequestIdle /\ TierIdle
    /\ TokenIdle /\ FieldIdle /\ StreamIdle /\ StartupIdle
    /\ inputFiles = SourceVideoFiles
    /\ pgRun = 1
    /\ pgClip = 1
    /\ pgEntry = 1
    /\ pgPc = "call"
    /\ pgCtx = FALSE
    /\ disk = [j \in Jobs |-> NoArtifact]
    /\ jobPc = [j \in Jobs |-> "none"]
    /\ jobStarted = [j \in Jobs |-> FALSE]
    /\ jobExit = [j \in Jobs |-> "none"]
    /\ jobSaw = [j \in Jobs |-> "none"]
    /\ prevFailed = [j \in Jobs |-> FALSE]

Current == <<pgClip, pgEntry>>

\* PregenerateVideos: "resultCh, errCh := videoService.Transcode(ctx, spec,
\* inputPath, outputDir)" -- Transcode stats the output, removes an undersized
\* file, launches its goroutine and returns
CallTranscode ==
    /\ pgPc = "call"
    /\ LET j    == Current
           next == AfterStat(disk[j].exists, disk[j].size)
       IN  /\ disk' = [disk EXCEPT ![j] = IF next = "remove" THEN NoArtifact ELSE @]
           /\ jobExit' = [jobExit EXCEPT ![j] = IF next = "sendResult" THEN "hit" ELSE "none"]
           /\ jobPc' = [jobPc EXCEPT ![j] = IF next = "sendResult" THEN "tosend" ELSE "launch"]
    /\ pgPc' = "select"
    /\ UNCHANGED <<inputFiles, pgRun, pgClip, pgEntry, pgCtx, jobStarted, jobSaw,
                   prevFailed>>
    /\ UNCHANGED notPregenVars

\* where a goroutine stands once cmd.Run has returned or the cache hit is
\* known: about to send; when the caller has already left its select the send
\* and the deferred closes are observed by nobody and are taken at once
AfterRun(j) == IF jobSaw[j] = "none" THEN "tosend" ELSE "closed"

\* exec.CommandContext(ctx, ...).Run(): a context that is already done makes
\* Run fail without starting ffmpeg
JobStartWithoutContext(j) ==
    /\ jobPc[j] = "launch"
    /\ jobStarted' = [jobStarted EXCEPT ![j] = TRUE]
    /\ jobPc' = [jobPc EXCEPT ![j] = "running"]
    /\ UNCHANGED jobExit
    /\ UNCHANGED <<inputFiles, pgRun, pgClip, pgEntry, pgPc, pgCtx, disk, jobSaw,
                   prevFailed>>
    /\ UNCHANGED notPregenVars

JobStart(j) ==
    /\ jobPc[j] = "launch"
    /\ IF pgCtx
       THEN /\ jobExit' = [jobExit EXCEPT ![j] = "fail"]
            /\ jobPc' = [jobPc EXCEPT ![j] = AfterRun(j)]
            /\ UNCHANGED jobStarted
       ELSE /\ jobStarted' = [jobStarted EXCEPT ![j] = TRUE]
            /\ jobPc' = [jobPc EXCEPT ![j] = "running"]
            /\ UNCHANGED jobExit
    /\ UNCHANGED <<inputFiles, pgRun, pgClip, pgEntry, pgPc, pgCtx, disk, jobSaw,
                   prevFailed>>
    /\ UNCHANGED notPregenVars

\* the sizes a rendition passes through while ffmpeg writes it: at the
\* threshold of Transcode's size test, and just above it
PartialSizes == {MinFileSize, MinFileSize + 1}

\* ffmpeg creates the rendition and appends to it
JobWrite(j) ==
    /\ jobPc[j] = "running"
    /\ \E n \in PartialSizes :
          /\ disk[j].exists => n > disk[j].size
          /\ disk' = [disk EXCEPT ![j] =
                 [exists |-> TRUE, size |-> n, complete |-> FALSE, writer |-> "pregen"]]
    /\ UNCHANGED <<inputFiles, pgRun, pgClip, pgEntry, pgPc, pgCtx, jobPc, jobStarted,
                   jobExit, jobSaw, prevFailed>>
    /\ UNCHANGED notPregenVars

\* cmd.Run returns nil: the finished rendition is at the path
JobExitOk(j) ==
    /\ jobPc[j] = "running"
    /\ disk' = [disk EXCEPT ![j] =
           [exists |-> TRUE, size |-> MinFileSize + 1, complete |-> TRUE, writer |-> "pregen"]]
    /\ jobExit' = [jobExit EXCEPT ![j] = "ok"]
    /\ jobPc' = [jobPc EXCEPT ![j] = AfterRun(j)]
    /\ UNCHANGED <<inputFiles, pgRun, pgClip, pgEntry, pgPc, pgCtx, jobStarted, jobSaw,
                   prevFailed>>
    /\ UNCHANGED notPregenVars

\* cmd.Run returns an error (ffmpeg failed, or was killed at the deadline);
\* nothing removes what ffmpeg had written
JobExitFail(j) ==
    /\ jobPc[j] \in {"running", "killed"}
    /\ jobExit' = [jobExit EXCEPT ![j] = "fail"]
    /\ jobPc' = [jobPc EXCEPT ![j] = AfterRun(j)]
    /\ UNCHANGED <<inputFiles, pgRun, pgClip, pgEntry, pgPc, pgCtx, disk, jobStarted,
                   jobSaw, prevFailed>>
    /\ UNCHANGED notPregenVars

\* context.WithTimeout(context.Background(), 15*time.Minute) expires: os/exec
\* kills the ffmpeg that is running
Deadline ==
    /\ pgPc \in {"call", "select"}
    /\ ~pgCtx
    /\ pgCtx' = TRUE
    /\ jobPc' = [j \in Jobs |-> IF jobPc[j] = "running" THEN "killed" ELSE jobPc[j]]
    /\ UNCHANGED <<inputFiles, pgRun, pgClip, pgEntry, pgPc, disk, jobStarted, jobExit,
                   jobSaw, prevFailed>>
    /\ UNCHANGED notPregenVars

\* "resultCh <- fullOutputPath" or "errCh <- fmt.Errorf(...)"
JobSend(j) ==
    /\ jobPc[j] = "tosend"
    /\ jobPc' = [jobPc EXCEPT ![j] = "sent"]
    /\ UNCHANGED <<inputFiles, pgRun, pgClip, pgEntry, pgPc, pgCtx, disk, jobStarted,
                   jobExit, jobSaw, prevFailed>>
    /\ UNCHANGED notPregenVars

\* the deferred close(errCh) and close(resultCh)
JobClose(j) ==
    /\ jobPc[j] = "sent"
    /\ jobPc' = [jobPc EXCEPT ![j] = "closed"]
    /\ UNCHANGED <<inputFiles, pgRun, pgClip, pgEntry, pgPc, pgCtx, disk, jobStarted,
                   jobExit, jobSaw, prevFailed>>
    /\ UNCHANGED notPregenVars

\* the cases of "select { case result := <-resultCh: ... case err := <-errCh:
\* ... case <-ctx.Done(): ... }" that are ready: a buffered value, a closed
\* channel (which yields the zero value), a done context
ReadyCases(j) ==
    (IF jobPc[j] \in {"sent", "closed"} /\ jobExit[j] \in {"hit", "ok"}
        THEN {"result"} ELSE {})
    \cup (IF jobPc[j] \in {"sent", "closed"} /\ jobExit[j] = "fail"
        THEN {"error"} ELSE {})
    \cup (IF jobPc[j] = "closed" /\ jobExit[j] \in {"hit", "ok"}
        THEN {"zeroError"} ELSE {})
    \cup (IF jobPc[j] = "closed" /\ jobExit[j] = "fail"
        THEN {"zeroResult"} ELSE {})
    \cup (IF pgCtx THEN {"cancelled"} ELSE {})

\* where the loops go after the select: the result case goes on to the next
\* catalog entry; the error and ctx.Done cases return from PregenerateVideos,
\* and PregenerateAllVideos continues with the next clip
AfterSelect(case) ==
    IF /\ case \in {"result", "zeroResult"}
       /\ pgEntry < MaxPregen /\ pgEntry < Len(DefaultPregenSpecs)
    THEN [clip |-> pgClip, entry |-> pgEntry + 1]
    ELSE [clip |-> pgClip + 1, entry |-> 1]

Select ==
    /\ pgPc = "select"
    /\ \E case \in ReadyCases(Current) :
          /\ jobSaw' = [jobSaw EXCEPT ![Current] = case]
          /\ LET next == AfterSelect(case)
             IN  IF next.clip > Len(inputFiles)
                 THEN /\ pgPc' = "finished"
                      /\ UNCHANGED <<pgClip, pgEntry>>
                 ELSE /\ pgPc' = "call"
                      /\ pgClip' = next.clip
                      /\ pgEntry' = next.entry
    /\ jobPc' = [jobPc EXCEPT ![Current] = IF @ \in {"tosend", "sent"} THEN "closed" ELSE @]
    /\ UNCHANGED <<inputFiles, pgRun, pgCtx, disk, jobStarted, jobExit, prevFailed>>
    /\ UNCHANGED notPregenVars

PregenNext ==
    \/ CallTranscode
    \/ \E j \in Jobs : JobStart(j)
    \/ \E j \in Jobs : JobWrite(j)
    \/ \E j \in Jobs : JobExitOk(j)
    \/ \E j \in Jobs : JobExitFail(j)
    \/ \E j \in Jobs : JobSend(j)
    \/ \E j \in Jobs : JobClose(j)
    \/ Deadline
    \/ Select

\* one process start, over every source clip
PregenSpec == PregenInit /\ [][PregenNext]_vars

Attempted(j) == jobPc[j] # "none"
Before(a, b) == a[1] < b[1] \/ (a[1] = b[1] /\ a[2] < b[2])
Delivered(j) == jobPc[j] \in {"sent", "closed"}

\* C12: rendition pregeneration is strictly sequential -- the entries of a
\* clip are attempted in catalog order, an encode is started only after the
\* Transcode of every earlier entry has delivered its result, and the task
\* never has two encodes in flight.
C12_PregenerationSequential ==
    /\ Cardinality({j \in Jobs : jobPc[j] \in {"running", "killed"}}) <= 1
    /\ \A j \in Jobs :
          /\ (Attempted(j) /\ j[2] > 1) =>
                 /\ Attempted(<<j[1], j[2] - 1>>)
                 /\ jobSaw[<<j[1], j[2] - 1>>] \in {"result", "zeroResult"}
          /\ jobStarted[j] =>
                 \A e \in Jobs : (Before(e, j) /\ Attempted(e)) => Delivered(e)

\* the encodes of two entries of one clip have both run, one after the other
C12_Witness ==
    \E j \in Jobs :
        /\ j[2] > 1
        /\ jobStarted[j] /\ jobExit[j] = "ok"
        /\ jobStarted[<<j[1], j[2] - 1>>] /\ jobExit[<<j[1], j[2] - 1>>] = "ok"

\* C13: fail-fast per clip -- after the encode of a catalog entry has failed
\* no later entry of that clip is attempted in this run, an entry whose encode
\* succeeded never aborts the batch, and every remaining clip is still
\* attempted after a clip has failed.
C13_FailFastPerClip ==
    /\ \A j \in Jobs : \A k \in Jobs :
          (jobExit[j] = "fail" /\ k[1] = j[1] /\ k[2] > j[2]) => ~Attempted(k)
    /\ \A j \in Jobs :
          jobExit[j] = "ok" => jobSaw[j] \notin {"error", "zeroError"}
    /\ pgPc = "finished" =>
          \A i \in 1..Len(inputFiles) : Attempted(<<i, 1>>)

-----------------------------------------------------------------------------
(* service: rendition pregeneration over several process starts            *)

\* one source clip, so that several process starts stay small
RerunInit ==
    /\ ParserIdle /\ ServiceIdle /\ HLSIdle /\ FindIdle /\ RequestIdle /\ TierIdle
    /\ TokenIdle /\ FieldIdle /\ StreamIdle /\ StartupIdle
    /\ inputFiles = SubSeq(SourceVideoFiles, 1, 1)
    /\ pgRun = 1
    /\ pgClip = 1
    /\ pgEntry = 1
    /\ pgPc = "call"
    /\ pgCtx = FALSE
    /\ disk = [j \in Jobs |-> NoArtifact]
    /\ jobPc = [j \in Jobs |-> "none"]
    /\ jobStarted = [j \in Jobs |-> FALSE]
    /\ jobExit = [j \in Jobs |-> "none"]
    /\ jobSaw = [j \in Jobs |-> "none"]
    /\ prevFailed = [j \in Jobs |-> FALSE]

\* the process is started again once the goroutines of the last start are
\* gone: the files stay, everything else is new
Restart ==
    /\ pgPc = "finished"
    /\ pgRun < MaxRuns
    /\ \A j \in Jobs : jobPc[j] \in {"none", "closed"}
    /\ pgRun' = pgRun + 1
    /\ pgClip' = 1
    /\ pgEntry' = 1
    /\ pgPc' = "call"
    /\ pgCtx' = FALSE
    /\ prevFailed' = [j \in Jobs |->
           prevFailed[j] \/ (jobStarted[j] /\ jobExit[j] # "ok")]
    /\ jobPc' = [j \in Jobs |-> "none"]
    /\ jobStarted' = [j \in Jobs |-> FALSE]
    /\ jobExit' = [j \in Jobs |-> "none"]
    /\ jobSaw' = [j \in Jobs |-> "none"]
    /\ UNCHANGED <<inputFiles, disk>>
    /\ UNCHANGED notPregenVars

RerunNext ==
    \/ PregenNext
    \/ Restart

RerunSpec == RerunInit /\ [][RerunNext]_vars

\* C14: a rendition whose pregeneration failed (encoder error, or the deadline
\* in the middle of the encode) is retried on the next process start -- the
\* next run never accepts what the failed run left at the path as the
\* finished artifact.
C14_FailedRenditionRetried ==
    \A j \in Jobs :
        (prevFailed[j] /\ jobExit[j] = "hit") => disk[j].complete

-----------------------------------------------------------------------------
(* service: HLS pregeneration of one clip -- PregenerateHLS,                *)
(* isVideoVertical, VideoService.TranscodeHLS                               *)

\* the longest side_data_list ffprobe prints for the stream
MaxSideData == 2

\* the rotation values of side-data entries; an entry without the field
\* decodes to Go's zero value
Rotations == {0, 90, 0 - 90, 180}

\* width and height of the first video stream: landscape, portrait, square
Dimensions == {<<1920, 1080>>, <<1080, 1920>>, <<1080, 1080>>}

SideDataLists == UNION {[1..n -> [Rotation : Rotations]] : n \in 0..MaxSideData}

\* what "ffprobe -select_streams v:0 -show_entries
\* stream=width,height:stream_side_data=rotation -of json" can come back with:
\* a failed run, output that does not parse, no stream, one stream
ProbeOutputs ==
    {[err |-> e, streams |-> << >>] : e \in {"ffprobe", "json", "none"}}
    \cup {[err |-> "none",
           streams |-> <<[Width |-> d[1], Height |-> d[2], SideDataList |-> l]>>] :
             d \in Dimensions, l \in SideDataLists}

\* math.Abs
Abs(n) == IF n < 0 THEN 0 - n ELSE n

isVideoVertical(out) ==
    IF out.err # "none" THEN [vertical |-> FALSE, err |-> TRUE]
    ELSE IF Len(out.streams) = 0 THEN [vertical |-> FALSE, err |-> TRUE]
    ELSE LET stream   == out.streams[1]
             rotation == IF Len(stream.SideDataList) > 0
                         THEN stream.SideDataList[1].Rotation
                         ELSE 0
             isNaturalPortrait == stream.Height > stream.Width
             isRotatedPortrait == Abs(rotation) = 90
         IN  [vertical |-> isNaturalPortrait \/ isRotatedPortrait, err |-> FALSE]

\* config.Resolutions[name]
ResolutionNamed(name) ==
    LET r == CHOOSE x \in Resolutions : x.name = name
    IN  [Width |-> r.Width, Height |-> r.Height]

\* config.Resolution{Width: res.Height, Height: res.Width}
Swapped(res) == [Width |-> res.Height, Height |-> res.Width]

playlistName == <<"p", "l", "a", "y", "l", "i", "s", "t", ".", "m", "3", "u", "8">>

\* paths are sequences of components below the tier directory
\* <stream-root>/<clip>/<resName>

\* PregenerateHLS: filepath.Join(hlsDir, config.HLSMediaPlaylist)
SentinelPath == <<HLSMediaPlaylist>>

\* TranscodeHLS: filepath.Join(outputDir, fmt.Sprintf("%dx%d", res.Width,
\* res.Height), "playlist.m3u8")
OutputPlaylist(res) == <<Itoa(res.Width) \o <<"x">> \o Itoa(res.Height), playlistName>>

\* what ffmpeg leaves behind when it exits with success: the playlist, and
\* beside it the init segment (-hls_fmp4_init_filename) and the one-second
\* chunks (-hls_segment_filename hlsDir/chunk_%03d.mp4) of a three-second clip
EncodedFiles(res) ==
    LET hlsDir == OutputPlaylist(res)[1]
    IN  {OutputPlaylist(res), <<hlsDir, initName>>}
            \cup {<<hlsDir, chunkName(k)>> : k \in 0..2}

\* sources whose stream carries no side data: landscape, portrait, square
PlainProbes ==
    {p \in ProbeOutputs :
        /\ p.err = "none"
        /\ Len(p.streams) > 0
        /\ Len(p.streams[1].SideDataList) = 0}

\* a process start over tier directories as found on disk: empty, or holding
\* a media playlist put there before
TierInit ==
    /\ ParserIdle /\ ServiceIdle /\ HLSIdle /\ FindIdle /\ RequestIdle /\ PregenIdle
    /\ TokenIdle /\ FieldIdle /\ StreamIdle /\ StartupIdle
    /\ probe \in PlainProbes
    /\ hpRun = 1
    /\ hpPc = "probe"
    /\ hpCtx = FALSE
    /\ isVertical = FALSE
    /\ hlsResolutions = [t \in HLSTiers |-> NoResolution]
    /\ tiersLeft = {}
    /\ resName = EmptyString
    /\ streamFiles \in [HLSTiers -> {{}, {SentinelPath}}]
    /\ masterPlaylist = FALSE
    /\ encodedWith = [t \in HLSTiers |-> NoResolution]
    /\ tierExit = [t \in HLSTiers |-> "none"]
    /\ hjPc = "none"
    /\ hjExit = "none"
    /\ prevOk = FALSE

\* the first process start, over an empty stream root, for any source
OrientInit ==
    /\ ParserIdle /\ ServiceIdle /\ HLSIdle /\ FindIdle /\ RequestIdle /\ PregenIdle
    /\ TokenIdle /\ FieldIdle /\ StreamIdle /\ StartupIdle
    /\ probe \in ProbeOutputs
    /\ hpRun = 1
    /\ hpPc = "probe"
    /\ hpCtx = FALSE
    /\ isVertical = FALSE
    /\ hlsResolutions = [t \in HLSTiers |-> NoResolution]
    /\ tiersLeft = {}
    /\ resName = EmptyString
    /\ streamFiles = [t \in HLSTiers |-> {}]
    /\ masterPlaylist = FALSE
    /\ encodedWith = [t \in HLSTiers |-> NoResolution]
    /\ tierExit = [t \in HLSTiers |-> "none"]
    /\ hjPc = "none"
    /\ hjExit = "none"
    /\ prevOk = FALSE

\* PregenerateHLS up to the loop: the orientation probe, whose error is logged
\* and replaced by "not vertical", and the table of resolutions
ProbeOrientation ==
    /\ hpPc = "probe"
    /\ LET v        == isVideoVertical(probe)
           vertical == IF v.err THEN FALSE ELSE v.vertical
       IN  /\ isVertical' = vertical
           /\ hlsResolutions' = [t \in HLSTiers |->
                  IF vertical THEN Swapped(ResolutionNamed(t)) ELSE ResolutionNamed(t)]
    /\ tiersLeft' = HLSTiers
    /\ hpPc' = "range"
    /\ UNCHANGED <<probe, hpRun, hpCtx, resName, streamFiles, masterPlaylist,
                   encodedWith, tierExit, hjPc, hjExit, prevOk>>
    /\ UNCHANGED notTierVars

\* one iteration of "for resName, resolution := range hlsResolutions" (Go
\* ranges over a map in no fixed order) up to the select: the sentinel test,
\* and the call of TranscodeHLS when the sentinel is absent
RangeTier(t) ==
    /\ hpPc = "range"
    /\ t \in tiersLeft
    /\ tiersLeft' = tiersLeft \ {t}
    /\ IF SentinelPath \in streamFiles[t]
       THEN /\ tierExit' = [tierExit EXCEPT ![t] = "skipped"]
            /\ UNCHANGED <<hpPc, resName, encodedWith, hjPc, hjExit>>
       ELSE /\ resName' = t
            /\ encodedWith' = [encodedWith EXCEPT ![t] = hlsResolutions[t]]
            /\ hjPc' = "launch"
            /\ hjExit' = "none"
            /\ hpPc' = "select"
            /\ UNCHANGED tierExit
    /\ UNCHANGED <<probe, hpRun, hpCtx, isVertical, hlsResolutions, streamFiles,
                   masterPlaylist, prevOk>>
    /\ UNCHANGED notTierVars

\* exec.CommandContext(ctx, "ffmpeg", ...).Run(): a done context makes Run
\* fail without starting ffmpeg
TranscodeHLSStart ==
    /\ hjPc = "launch"
    /\ IF hpCtx
       THEN /\ hjExit' = "fail"
            /\ tierExit' = [tierExit EXCEPT ![resName] = "fail"]
            /\ hjPc' = "tosend"
       ELSE /\ hjPc' = "running"
            /\ UNCHANGED <<hjExit, tierExit>>
    /\ UNCHANGED <<probe, hpRun, hpPc, hpCtx, isVertical, hlsResolutions, tiersLeft,
                   resName, streamFiles, masterPlaylist, encodedWith, prevOk>>
    /\ UNCHANGED notTierVars

\* cmd.Run returns nil: ffmpeg has written the playlist it was given and the
\* segments beside it
TranscodeHLSExitOk ==
    /\ hjPc = "running"
    /\ streamFiles' = [streamFiles EXCEPT
           ![resName] = @ \cup EncodedFiles(encodedWith[resName])]
    /\ hjExit' = "ok"
    /\ tierExit' = [tierExit EXCEPT ![resName] = "ok"]
    /\ hjPc' = "tosend"
    /\ UNCHANGED <<probe, hpRun, hpPc, hpCtx, isVertical, hlsResolutions, tiersLeft,
                   resName, masterPlaylist, encodedWith, prevOk>>
    /\ UNCHANGED notTierVars

\* cmd.Run returns an error: ffmpeg failed or was killed at the deadline
TranscodeHLSExitFail ==
    /\ hjPc \in {"running", "killed"}
    /\ hjExit' = "fail"
    /\ tierExit' = [tierExit EXCEPT ![resName] = "fail"]
    /\ hjPc' = "tosend"
    /\ UNCHANGED <<probe, hpRun, hpPc, hpCtx, isVertical, hlsResolutions, tiersLeft,
                   resName, streamFiles, masterPlaylist, encodedWith, prevOk>>
    /\ UNCHANGED notTierVars

\* "resultCh <- playlistPath" or "errCh <- fmt.Errorf(...)"
TranscodeHLSSend ==
    /\ hjPc = "tosend"
    /\ hjPc' = "sent"
    /\ UNCHANGED <<probe, hpRun, hpPc, hpCtx, isVertical, hlsResolutions, tiersLeft,
                   resName, streamFiles, masterPlaylist, encodedWith, tierExit,
                   hjExit, prevOk>>
    /\ UNCHANGED notTierVars

\* the deferred close(errCh) and close(resultCh)
TranscodeHLSClose ==
    /\ hjPc = "sent"
    /\ hjPc' = "closed"
    /\ UNCHANGED <<probe, hpRun, hpPc, hpCtx, isVertical, hlsResolutions, tiersLeft,
                   resName, streamFiles, masterPlaylist, encodedWith, tierExit,
                   hjExit, prevOk>>
    /\ UNCHANGED notTierVars

\* the 15-minute context of StartupPregeneration expires: os/exec kills the
\* ffmpeg that is running
HLSDeadline ==
    /\ hpPc \in {"range", "select"}
    /\ ~hpCtx
    /\ hpCtx' = TRUE
    /\ hjPc' = IF hjPc = "running" THEN "killed" ELSE hjPc
    /\ UNCHANGED <<probe, hpRun, hpPc, isVertical, hlsResolutions, tiersLeft,
                   resName, streamFiles, masterPlaylist, encodedWith, tierExit,
                   hjExit, prevOk>>
    /\ UNCHANGED notTierVars

\* the ready cases of the select in PregenerateHLS
HLSReadyCases ==
    (IF hjPc \in {"sent", "closed"} /\ hjExit = "ok" THEN {"result"} ELSE {})
    \cup (IF hjPc \in {"sent", "closed"} /\ hjExit = "fail" THEN {"error"} ELSE {})
    \cup (IF hjPc = "closed" /\ hjExit = "ok" THEN {"zeroError"} ELSE {})
    \cup (IF hjPc = "closed" /\ hjExit = "fail" THEN {"zeroResult"} ELSE {})
    \cup (IF hpCtx THEN {"cancelled"} ELSE {})

\* the select: the result case goes on with the range, the error and
\* ctx.Done cases return the error; a goroutine left behind under the done
\* context starts or completes no encode
HLSSelect ==
    /\ hpPc = "select"
    /\ \E case \in HLSReadyCases :
          hpPc' = IF case \in {"result", "zeroResult"} THEN "range" ELSE "failed"
    /\ tierExit' = [tierExit EXCEPT ![resName] = IF hjExit = "none" THEN "fail" ELSE @]
    /\ hjPc' = "none"
    /\ UNCHANGED <<probe, hpRun, hpCtx, isVertical, hlsResolutions, tiersLeft,
                   resName, streamFiles, masterPlaylist, encodedWith, hjExit, prevOk>>
    /\ UNCHANGED notTierVars

\* after the loop: the master playlist is written unless it exists
WriteMasterPlaylist ==
    /\ hpPc = "range"
    /\ tiersLeft = {}
    /\ masterPlaylist' = TRUE
    /\ hpPc' = "done"
    /\ UNCHANGED <<probe, hpRun, hpCtx, isVertical, hlsResolutions, tiersLeft,
                   resName, streamFiles, encodedWith, tierExit, hjPc, hjExit, prevOk>>
    /\ UNCHANGED notTierVars

\* the process is started again: the files stay, everything else is new
HLSRestart ==
    /\ hpPc \in {"done", "failed"}
    /\ hpRun < MaxRuns
    /\ hpRun' = hpRun + 1
    /\ hpPc' = "probe"
    /\ hpCtx' = FALSE
    /\ isVertical' = FALSE
    /\ hlsResolutions' = [t \in HLSTiers |-> NoResolution]
    /\ tiersLeft' = {}
    /\ resName' = EmptyString
    /\ encodedWith' = [t \in HLSTiers |-> NoResolution]
    /\ tierExit' = [t \in HLSTiers |-> "none"]
    /\ hjPc' = "none"
    /\ hjExit' = "none"
    /\ prevOk' = (hpPc = "done" /\ \A t \in HLSTiers : tierExit[t] \in {"skipped", "ok"})
    /\ UNCHANGED <<probe, streamFiles, masterPlaylist>>
    /\ UNCHANGED notTierVars

OrientNext ==
    \/ ProbeOrientation
    \/ \E t \in HLSTiers : RangeTier(t)
    \/ TranscodeHLSStart
    \/ TranscodeHLSExitOk
    \/ TranscodeHLSExitFail
    \/ TranscodeHLSSend
    \/ TranscodeHLSClose
    \/ HLSDeadline
    \/ HLSSelect
    \/ WriteMasterPlaylist

\* one process start
OrientSpec == OrientInit /\ [][OrientNext]_vars

TierNext ==
    \/ OrientNext
    \/ HLSRestart

\* repeated process starts
TierSpec == TierInit /\ [][TierNext]_vars

\* C15: HLS pregeneration is idempotent -- the encoder is invoked for a tier
\* exactly when the tier's sentinel media playlist is absent, a successful
\* tier encode creates the sentinel, and a run that follows a fully
\* successful run invokes no HLS encoder.
C15_HLSPregenerationIdempotent ==
    /\ \A t \in HLSTiers :
          /\ tierExit[t] = "skipped" => SentinelPath \in streamFiles[t]
          /\ encodedWith[t] # NoResolution => tierExit[t] # "skipped"
          /\ tierExit[t] = "ok" => SentinelPath \in streamFiles[t]
    /\ prevOk => \A t \in HLSTiers : encodedWith[t] = NoResolution

\* the names of the files that lie directly in the tier directory
\* <stream-root>/<clip>/<tier>/, where ServeHLS globs chunk_*.mp4
InTierDir(t) == {p[1] : p \in {q \in streamFiles[t] : Len(q) = 1}}

\* C32: the HLS encode of (clip, tier) writes init.mp4, chunk_NNN.mp4 and its
\* playlist into <stream-root>/<clip>/<tier>/, the directory whose sentinel
\* PregenerateHLS checks and in which ServeHLS counts and serves chunks, so a
\* successfully pregenerated tier is servable.
C32_PregeneratedTierServable ==
    \A t \in HLSTiers :
        tierExit[t] = "ok" =>
            /\ \A p \in streamFiles[t] : Len(p) = 1
            /\ initName \in InTierDir(t)
            /\ chunkCount(Glob(InTierDir(t))) >= 1

\* the orientation the claim assigns to a probe output: portrait when the
\* first video stream is taller than wide or carries a rotation of magnitude 90
Portrait(out) ==
    /\ out.err = "none"
    /\ Len(out.streams) > 0
    /\ LET stream == out.streams[1]
       IN  \/ stream.Height > stream.Width
           \/ \E i \in 1..Len(stream.SideDataList) :
                  Abs(stream.SideDataList[i].Rotation) = 90

\* C16: the HLS tiers are encoded with width and height swapped exactly when
\* the source's first video stream has height > width or a rotation of
\* magnitude 90; every other source, and a failed probe, gets the landscape
\* presets 854x480, 1280x720, 1920x1080, and generation goes on.
C16_TiersSwappedExactlyForPortrait ==
    /\ \A t \in HLSTiers :
          encodedWith[t] # NoResolution =>
              encodedWith[t] = IF Portrait(probe)
                               THEN Swapped(ResolutionNamed(t))
                               ELSE ResolutionNamed(t)
    /\ (hpPc \notin {"probe", "off"} /\ ~Portrait(probe)) =>
          /\ hlsResolutions[<<"4", "8", "0", "p">>] = [Width |-> 854, Height |-> 480]
          /\ hlsResolutions[<<"7", "2", "0", "p">>] = [Width |-> 1280, Height |-> 720]
          /\ hlsResolutions[<<"1", "0", "8", "0", "p">>] = [Width |-> 1920, Height |-> 1080]

-----------------------------------------------------------------------------
(* service: StartupPregeneration -- PregenerateAllVideos and then            *)
(* PregenerateAllHLS in one goroutine under one context.WithTimeout        *)

\* the source files config.GetSourceVideoFiles returns
MaxClips == 2

\* the items of a clip in a phase: the catalog entries of PregenerateVideos,
\* the tiers of PregenerateHLS
ItemCount(phase) ==
    IF phase = "videos" THEN MaxPregen ELSE Cardinality(HLSTiers)

AllItems ==
    UNION { {<<phase, clip, item>> : clip \in 1..MaxClips,
                                     item \in 1..ItemCount(phase)} :
            phase \in {"videos", "hls"} }

\* what earlier process starts left on disk: nothing, everything, the first
\* clip's artifacts
StartDisks ==
    { {}, AllItems, {k \in AllItems : k[2] = 1} }

StartupInit ==
    /\ ParserIdle /\ ServiceIdle /\ HLSIdle /\ FindIdle /\ RequestIdle
    /\ PregenIdle /\ TierIdle /\ TokenIdle /\ FieldIdle /\ StreamIdle
    /\ suCtx = "live"
    /\ suPhase = "videos"
    /\ suClip = 1
    /\ suItem = 1
    /\ suPc = "start"
    /\ suEnc = "none"
    /\ suClosed = FALSE
    /\ suDisk \in StartDisks
    /\ suMissed = FALSE
    /\ suLast = NoOutcome
    /\ suLate = FALSE

\* exec.CommandContext(ctx, "ffmpeg", ...): a done context keeps the process
\* from starting and kills the one that runs
CommandContext(ctx, enc) ==
    IF ctx = "done" /\ enc = "running" THEN "killed" ELSE enc

\* context.WithTimeout(context.Background(), 15*time.Minute): the deadline
\* passes
DeadlinePasses ==
    /\ suPhase \in {"videos", "hls"}
    /\ suCtx = "live"
    /\ suCtx' = "done"
    /\ suEnc' = CommandContext("done", suEnc)
    /\ UNCHANGED <<suPhase, suClip, suItem, suPc, suClosed, suDisk, suMissed,
                   suLast, suLate>>
    /\ UNCHANGED notStartupVars

\* the loop over the source files moves on: "continue" after a logged
\* failure, or the next iteration; after the last file PregenerateAllVideos
\* returns nil and PregenerateAllHLS starts, after which the goroutine returns
NextClip(how) ==
    /\ suLast' = [how |-> how, missed |-> suMissed]
    /\ suMissed' = FALSE
    /\ suItem' = 1
    /\ suPc' = "start"
    /\ suEnc' = "none"
    /\ suClosed' = FALSE
    /\ IF suClip < MaxClips
       THEN /\ suClip' = suClip + 1
            /\ UNCHANGED suPhase
       ELSE /\ suClip' = 1
            /\ suPhase' = IF suPhase = "videos" THEN "hls" ELSE "returned"

\* the inner loop moves on: the next entry or tier, or the clip is complete
NextItem ==
    IF suItem < ItemCount(suPhase)
    THEN /\ suItem' = suItem + 1
         /\ suPc' = "start"
         /\ suEnc' = "none"
         /\ suClosed' = FALSE
         /\ UNCHANGED <<suPhase, suClip, suMissed, suLast>>
    ELSE NextClip("ok")

\* one iteration up to its select.  PregenerateVideos: Transcode answers from
\* the file when it is there and starts ffmpeg otherwise.  PregenerateHLS: a
\* tier whose media playlist is there is skipped, otherwise TranscodeHLS
\* starts ffmpeg.
StartItem ==
    LET key == <<suPhase, suClip, suItem>>
    IN  /\ suPhase \in {"videos", "hls"}
        /\ suPc = "start"
        /\ IF key \in suDisk
           THEN IF suPhase = "videos"
                THEN /\ suEnc' = "hit"
                     /\ suPc' = "wait"
                     /\ UNCHANGED <<suPhase, suClip, suItem, suClosed, suMissed,
                                    suLast>>
                ELSE NextItem
           ELSE /\ suEnc' = CommandContext(suCtx, "running")
                /\ suPc' = "wait"
                /\ suMissed' = (suMissed \/ suCtx = "done")
                /\ UNCHANGED <<suPhase, suClip, suItem, suClosed, suLast>>
        /\ UNCHANGED <<suCtx, suDisk, suLate>>
        /\ UNCHANGED notStartupVars

\* ffmpeg exits with status 0: the artifact is complete (no later item of
\* the run looks at it)
EncoderExitsOk ==
    /\ suPc = "wait"
    /\ suEnc = "running"
    /\ suEnc' = "ok"
    /\ suLate' = (suLate \/ suCtx = "done")
    /\ UNCHANGED <<suCtx, suPhase, suClip, suItem, suPc, suClosed, suDisk,
                   suMissed, suLast>>
    /\ UNCHANGED notStartupVars

\* ffmpeg exits with an error of its own
EncoderExitsFail ==
    /\ suPc = "wait"
    /\ suEnc = "running"
    /\ suEnc' = "failed"
    /\ UNCHANGED <<suCtx, suPhase, suClip, suItem, suPc, suClosed, suDisk,
                   suMissed, suLast, suLate>>
    /\ UNCHANGED notStartupVars

\* the goroutine of Transcode or TranscodeHLS has sent its one value and
\* returns: "defer close(resultCh)", "defer close(errCh)"
GoroutineReturns ==
    /\ suPc = "wait"
    /\ suEnc \in {"hit", "ok", "failed", "killed"}
    /\ ~suClosed
    /\ suClosed' = TRUE
    /\ UNCHANGED <<suCtx, suPhase, suClip, suItem, suPc, suEnc, suDisk,
                   suMissed, suLast, suLate>>
    /\ UNCHANGED notStartupVars

\* "case result := <-resultCh": a path, or the zero value of the closed channel
SelectResult ==
    /\ suPc = "wait"
    /\ suEnc \in {"hit", "ok"} \/ suClosed
    /\ NextItem
    /\ UNCHANGED <<suCtx, suDisk, suLate>>
    /\ UNCHANGED notStartupVars

\* "case err := <-errCh: return nil, fmt.Errorf(...)": the caller logs the
\* failure and continues with the next source file
SelectErr ==
    /\ suPc = "wait"
    /\ suEnc \in {"failed", "killed"} \/ suClosed
    /\ NextClip("failed")
    /\ UNCHANGED <<suCtx, suDisk, suLate>>
    /\ UNCHANGED notStartupVars

\* "case <-ctx.Done(): return nil, fmt.Errorf("pregeneration cancelled ...")"
SelectDone ==
    /\ suPc = "wait"
    /\ suCtx = "done"
    /\ NextClip("cancelled")
    /\ UNCHANGED <<suCtx, suDisk, suLate>>
    /\ UNCHANGED notStartupVars

PregenerationNext == StartItem \/ SelectResult \/ SelectErr \/ SelectDone

StartupNext ==
    \/ PregenerationNext
    \/ EncoderExitsOk
    \/ EncoderExitsFail
    \/ GoroutineReturns
    \/ DeadlinePasses

StartupSpec == StartupInit /\ [][StartupNext]_vars

\* the goroutine of StartupPregeneration is scheduled and time passes; ffmpeg
\* is not assumed to end by itself
StartupFairSpec ==
    StartupSpec /\ WF_vars(PregenerationNext) /\ WF_vars(DeadlinePasses)

\* C36: startup pregeneration always terminates.  Both phases share one
\* deadline; once it has passed every pending wait returns, no encode
\* completes successfully any more, and every clip that still has something
\* to encode is abandoned with a logged failure.
C36_PregenerationTerminates ==
    /\ <>(suPhase = "returned")
    /\ ((suCtx = "done" /\ suPc = "wait") ~> suPc # "wait")
    /\ [](~suLate)
    /\ [](suLast.how = "ok" => ~suLast.missed)

-----------------------------------------------------------------------------
(* parser: ParseFilename on filenames built from tokens                    *)

\* the longest token list of a filename whose tokens are also rearranged
MaxTokens == 3
\* the longest token list of a filename drawn from the full token alphabet
MaxParts == 2

\* tokens whose order is varied: two presets, a WxH resolution, two video
\* codecs, a clip name, a frame rate and a token nothing recognises
OrderTokens ==
    { <<"7", "2", "0", "p">>, <<"2", "4", "0", "p">>,
      <<"6", "4", "0", "x", "3", "6", "0">>, h264, vp9, bunny,
      <<"3", "0", "f", "p", "s">>, <<"i", "n", "v", "a", "l", "i", "d">> }

\* one token or more of every class the switch knows, and one of none
AllTokens ==
    { <<"7", "2", "0", "p">>, <<"2", "4", "0", "p">>,
      <<"6", "4", "0", "x", "3", "6", "0">>, h264, novideo, bunny,
      <<"3", "0", "f", "p", "s">>, <<"-", "5", "f", "p", "s">>,
      <<"2", "0", "0", "0", "f", "p", "s">>, <<"2", "0", "s">>,
      <<"2", "5", "c", "r", "f">>, <<"1", "2", "8", "k", "b", "p", "s">>,
      aac, opus, <<"m", "p", "3">>, vorbis, noaudio,
      <<"i", "n", "v", "a", "l", "i", "d">> }

\* what may follow the base name
Extensions ==
    { EmptyString, <<".">>, <<".">> \o mp4, <<".", "M", "P", "4">>,
      <<".">> \o webm, <<".", "a", "v", "i">> }

TokenLists(tokens, n) == UNION {[1..k -> tokens] : k \in 0..n}

\* the filename a request carries
TokenFilename(parts, ext) == Join(parts, <<"_">>) \o ext

TokenStart ==
    /\ tkParsed = NoResult
    /\ tkOrder = << >>
    /\ tkReordered = NoResult
    /\ tkEncoder = EmptyString
    /\ tkVariant = NoToken
    /\ tkKeys = << >>
    /\ tkPc = "input"
    /\ ParserIdle /\ ServiceIdle /\ HLSIdle /\ FindIdle /\ RequestIdle
    /\ PregenIdle /\ TierIdle /\ FieldIdle /\ StreamIdle /\ StartupIdle

OrderInit ==
    /\ tkParts \in TokenLists(OrderTokens, MaxTokens)
    /\ tkExt \in {EmptyString, <<".">> \o mp4}
    /\ TokenStart

TokenInit ==
    /\ tkParts \in TokenLists(AllTokens, MaxParts)
    /\ tkExt \in Extensions
    /\ TokenStart

\* the fields of config.VideoSpec the tokens of the base name can set
TokenFields ==
    {"Name", "Width", "Height", "Duration", "Codec", "FPS", "Bitrate",
     "AudioCodec", "AudioBitrate"}

\* the fields the switch assigns when it meets the part
Assigns(part) ==
    LET onZero    == ParsePart(VideoSpec, part, getSourceFileNames)
        onDefault == ParsePart(DefaultVideoSpec, part, getSourceFileNames)
    IN  {f \in TokenFields :
            onZero[f] # VideoSpec[f] \/ onDefault[f] # DefaultVideoSpec[f]}

\* parser.ParseFilename(filename)
TokParse ==
    /\ tkPc = "input"
    /\ tkParsed' = ParseFilename(TokenFilename(tkParts, tkExt))
    /\ tkPc' = "parsed"
    /\ UNCHANGED <<tkParts, tkExt, tkOrder, tkReordered, tkEncoder, tkVariant,
                   tkKeys>>
    /\ UNCHANGED notTokenVars

\* parser.ParseFilename of the same tokens in another order
TokReorder ==
    /\ tkPc = "parsed"
    /\ \E perm \in Permutations(1..Len(tkParts)) :
          LET order == [i \in 1..Len(tkParts) |-> tkParts[perm[i]]]
          IN  /\ tkOrder' = order
              /\ tkReordered' = ParseFilename(TokenFilename(order, tkExt))
    /\ tkPc' = "reordered"
    /\ UNCHANGED <<tkParts, tkExt, tkParsed, tkEncoder, tkVariant, tkKeys>>
    /\ UNCHANGED notTokenVars

\* Transcode defaults the parsed spec and looks its audio codec up
TokLookup ==
    /\ tkPc = "parsed"
    /\ ~tkParsed.err
    /\ tkEncoder' = MapLookup(AudioCodecNameMap,
                              ApplyDefaultVideoSpec(tkParsed.spec).AudioCodec)
    /\ tkPc' = "lookedup"
    /\ UNCHANGED <<tkParts, tkExt, tkParsed, tkOrder, tkReordered, tkVariant,
                   tkKeys>>
    /\ UNCHANGED notTokenVars

\* the fields one token sets together
FieldGroups ==
    {{"Name"}, {"Width", "Height"}, {"Duration"}, {"Codec"}, {"FPS"},
     {"Bitrate"}, {"AudioCodec"}, {"AudioBitrate"}}

\* a preset written as the WxH it stands for (config.Resolutions)
PresetAsSize(part) ==
    IF \E r \in Resolutions : r.name = part
    THEN LET r == CHOOSE r \in Resolutions : r.name = part
         IN  Itoa(r.Width) \o <<"x">> \o Itoa(r.Height)
    ELSE part

\* the request tokens that differ from (parts, ext) only in naming one
\* resolution by WxH instead of the preset, or in leaving out a field (all
\* the parts that set it, or the extension) whose resolved value is the default
Variants(parts, ext, resolved) ==
    { [parts |-> [parts EXCEPT ![i] = PresetAsSize(parts[i])], ext |-> ext] :
        i \in {j \in 1..Len(parts) : PresetAsSize(parts[j]) # parts[j]} }
    \cup
    { [parts |-> LET Keeps(part) == Assigns(part) \cap g = {}
                 IN  SelectSeq(parts, Keeps),
       ext |-> ext] :
        g \in {h \in FieldGroups :
                  /\ \A f \in h : resolved[f] = DefaultVideoSpec[f]
                  /\ \E i \in 1..Len(parts) : Assigns(parts[i]) \cap h # {}} }
    \cup
    (IF ext # EmptyString /\ resolved.Container = DefaultVideoSpec.Container
     THEN {[parts |-> parts, ext |-> EmptyString]}
     ELSE {})

\* ServeVideo: ParseFilename, ApplyDefaultVideoSpec, GenerateFilename; the
\* filename and spec.Name are what FindExistingVideo looks the artifact up by
CacheKey(params) ==
    LET inputParams == ParseFilename(params)
        resolved    == ApplyDefaultVideoSpec(inputParams.spec)
    IN  [err |-> inputParams.err,
         filename |-> IF inputParams.err THEN EmptyString
                      ELSE GenerateFilename(resolved),
         Name |-> IF inputParams.err THEN EmptyString ELSE resolved.Name]

\* two requests for the same video, named differently
TokRewrite ==
    /\ tkPc = "parsed"
    /\ ~tkParsed.err
    /\ \E v \in Variants(tkParts, tkExt, ApplyDefaultVideoSpec(tkParsed.spec)) :
          /\ tkVariant' = v
          /\ tkKeys' = <<CacheKey(TokenFilename(tkParts, tkExt)),
                         CacheKey(TokenFilename(v.parts, v.ext))>>
    /\ tkPc' = "rewritten"
    /\ UNCHANGED <<tkParts, tkExt, tkParsed, tkOrder, tkReordered, tkEncoder>>
    /\ UNCHANGED notTokenVars

TokenNext == TokParse \/ TokReorder \/ TokLookup \/ TokRewrite

\* tokens that name a resolution both ways and fields at and off their defaults
CanonTokens ==
    { <<"7", "2", "0", "p">>, <<"1", "2", "8", "0", "x", "7", "2", "0">>,
      <<"2", "4", "0", "p">>, h264, vp9, cat, <<"3", "0", "f", "p", "s">>,
      <<"2", "5", "c", "r", "f">>, novideo }

CanonInit ==
    /\ tkParts \in TokenLists(CanonTokens, MaxTokens)
    /\ tkExt \in {EmptyString, <<".">> \o mp4, <<".">> \o webm}
    /\ TokenStart

CanonSpec == CanonInit /\ [][TokenNext]_vars

\* C37: two request tokens that differ only in naming a resolution by preset
\* or by the equivalent WxH, or in leaving out fields whose value equals the
\* default, resolve and render to the same canonical filename and address
\* the same cache entry.
C37_CanonicalCacheKey ==
    tkPc = "rewritten" =>
        /\ ~tkKeys[2].err
        /\ tkKeys[1].filename = tkKeys[2].filename
        /\ tkKeys[1].Name = tkKeys[2].Name

\* 240p_h264_720p resolves to the default 1280x720; the request h264, which
\* leaves the resolution out, got the same key
C37_Witness ==
    /\ tkPc = "rewritten"
    /\ tkParts = << <<"2", "4", "0", "p">>, h264, <<"7", "2", "0", "p">> >>
    /\ tkVariant.parts = << h264 >>
    /\ tkKeys[1].filename = tkKeys[2].filename

OrderSpec == OrderInit /\ [][TokenNext]_vars

TokenSpec == TokenInit /\ [][TokenNext]_vars

\* per position, the fields its part assigns
AssignsAt(parts) == [i \in 1..Len(parts) |-> Assigns(parts[i])]

Last(S) == CHOOSE i \in S : \A j \in S : j <= i

\* C22: last-token-wins -- when several tokens classify into the same field
\* the parsed field holds the value of the last such token in token order;
\* 720p_h264_240p parses to width 426 and height 240.
C22_LastTokenWins ==
    (tkPc = "parsed" /\ ~tkParsed.err) =>
        LET assigned == AssignsAt(tkParts)
        IN  /\ \A f \in TokenFields :
                  LET at == {i \in 1..Len(tkParts) : f \in assigned[i]}
                  IN  at # {} =>
                          tkParsed.spec[f] =
                              ParsePart(VideoSpec, tkParts[Last(at)],
                                        getSourceFileNames)[f]
            /\ tkParts = << <<"7", "2", "0", "p">>, h264,
                            <<"2", "4", "0", "p">> >> =>
                  tkParsed.spec.Width = 426 /\ tkParsed.spec.Height = 240

C22_Witness ==
    /\ tkPc = "parsed"
    /\ tkParts = << <<"7", "2", "0", "p">>, h264, <<"2", "4", "0", "p">> >>
    /\ tkParsed.spec.Width = 426
    /\ tkParsed.spec.Codec = h264

\* the extension a filename was given, without its dot and in lower case
GivenExtension(ext) ==
    IF ext = EmptyString THEN EmptyString ELSE ToLower(Tail(ext))

\* C23: ParseFilename returns an error exactly when the filename has a
\* non-empty extension that is not mp4 or webm; otherwise it returns a spec
\* without error, in which a field no token classifies into keeps its zero
\* value and Container is empty, mp4 or webm.
C23_ErrorExactlyOnBadExtension ==
    tkPc = "parsed" =>
        LET given    == GivenExtension(tkExt)
            assigned == AssignsAt(tkParts)
        IN  /\ tkParsed.err <=>
                  (given # EmptyString /\ given \notin {mp4, webm})
            /\ ~tkParsed.err =>
                  /\ tkParsed.spec.Container \in {EmptyString, mp4, webm}
                  /\ tkParsed.spec.Container = given
                  /\ \A f \in TokenFields :
                        (\A i \in 1..Len(tkParts) : f \notin assigned[i]) =>
                            tkParsed.spec[f] = VideoSpec[f]

C23_Witness ==
    /\ tkPc = "parsed"
    /\ tkParts = << <<"i", "n", "v", "a", "l", "i", "d">>, h264 >>
    /\ tkExt = <<".", "a", "v", "i">>
    /\ tkParsed.err

\* no two parts assign the same field
NoSharedField(parts) ==
    LET assigned == AssignsAt(parts)
    IN  \A i, j \in 1..Len(parts) :
            i # j => assigned[i] \cap assigned[j] = {}

\* C24: token order does not matter -- when no two tokens classify into the
\* same field, every permutation of the tokens parses to the same VideoSpec.
C24_OrderIndependent ==
    (tkPc = "reordered" /\ NoSharedField(tkParts)) => tkReordered = tkParsed

C24_Witness ==
    /\ tkPc = "reordered"
    /\ tkParts = <<bunny, <<"i", "n", "v", "a", "l", "i", "d">>, h264>>
    /\ tkOrder = <<h264, <<"i", "n", "v", "a", "l", "i", "d">>, bunny>>
    /\ tkReordered.spec.Codec = h264
    /\ tkReordered.spec.Name = bunny

\* C26: whenever ParseFilename returns without error, Width, Height, FPS,
\* Duration and AudioBitrate are non-negative, FPS is at most 1000 and
\* AudioBitrate at most 10000000.
C26_NumericFieldsInRange ==
    (tkPc = "parsed" /\ ~tkParsed.err) =>
        /\ tkParsed.spec.Width >= 0
        /\ tkParsed.spec.Height >= 0
        /\ tkParsed.spec.FPS >= 0
        /\ tkParsed.spec.Duration >= 0
        /\ tkParsed.spec.AudioBitrate >= 0
        /\ tkParsed.spec.FPS <= 1000
        /\ tkParsed.spec.AudioBitrate <= 10000000

\* C29: each of aac, opus, mp3, vorbis and noaudio is accepted by
\* ParseFilename as an audio-codec token, and every audio codec it accepts has
\* a non-empty encoder name in the table Transcode builds its arguments from.
C29_AudioCodecsAccepted ==
    /\ (tkPc = "parsed" /\ ~tkParsed.err) =>
          \A name \in {aac, opus, <<"m", "p", "3">>, vorbis, noaudio} :
              tkParts = <<name>> => tkParsed.spec.AudioCodec = name
    /\ tkPc = "lookedup" => tkEncoder # EmptyString

-----------------------------------------------------------------------------
(* config and service: ApplyDefaultVideoSpec, GenerateFilename and the     *)
(* ffmpeg arguments of VideoService.Transcode on one spec                  *)

\* the specs handed in: every field either unset or set, the codecs also to
\* their disabled sentinel, the bitrate in each of its three modes
InputSpecs ==
    [Name         : {EmptyString, bunny},
     Width        : {0, 1920},
     Height       : {0, 1080},
     Duration     : {0, 60},
     Codec        : {EmptyString, vp9, novideo},
     FPS          : {0, 24},
     Bitrate      : {EmptyString, <<"2", "8", "c", "r", "f">>,
                     <<"3", "0", "0", "0", "c", "b", "r">>,
                     <<"3", "0", "0", "0", "v", "b", "r">>},
     AudioCodec   : {EmptyString, opus, noaudio},
     AudioBitrate : {0, 96},
     Container    : {EmptyString, webm}]

FieldInit ==
    /\ defaultSpec = DefaultVideoSpec
    /\ fsInput \in InputSpecs
    /\ fsResolved = VideoSpec
    /\ fsAgain = VideoSpec
    /\ fsFilename = EmptyString
    /\ fsArgs = << >>
    /\ fsSource = NoSize
    /\ fsOutput = NoSize
    /\ fsPc = "input"
    /\ ParserIdle /\ ServiceIdle /\ HLSIdle /\ FindIdle /\ RequestIdle
    /\ PregenIdle /\ TierIdle /\ TokenIdle /\ StreamIdle /\ StartupIdle

\* the arguments of ffmpeg the bitrate handling and the codec switch add
crfFlag == <<"-", "c", "r", "f">>
bvFlag == <<"-", "b", ":", "v">>
maxrateFlag == <<"-", "m", "a", "x", "r", "a", "t", "e">>
bufsizeFlag == <<"-", "b", "u", "f", "s", "i", "z", "e">>
cvFlag == <<"-", "c", ":", "v">>
rFlag == <<"-", "r">>
vnFlag == <<"-", "v", "n">>

\* config.VideoCodecArgs, by encoder name
VideoCodecArgs ==
    (VideoCodecNameMap[av1] :>
        << <<"-", "c", "p", "u", "-", "u", "s", "e", "d">>, <<"8">>,
           <<"-", "r", "o", "w", "-", "m", "t">>, <<"1">>,
           <<"-", "t", "i", "l", "e", "s">>, <<"2", "x", "2">> >>)
    @@ (VideoCodecNameMap[h264] :>
        << <<"-", "p", "r", "e", "s", "e", "t">>, <<"f", "a", "s", "t">>,
           <<"-", "t", "h", "r", "e", "a", "d", "s">>, <<"0">> >>)
    @@ (VideoCodecNameMap[h265] :>
        << <<"-", "p", "r", "e", "s", "e", "t">>, <<"f", "a", "s", "t">>,
           <<"-", "x", "2", "6", "5", "-", "p", "a", "r", "a", "m", "s">>,
           <<"p", "o", "o", "l", "s", "=", "+">> >>)
    @@ (VideoCodecNameMap[vp9] :>
        << <<"-", "s", "p", "e", "e", "d">>, <<"4">>,
           <<"-", "t", "i", "l", "e", "-", "c", "o", "l", "u", "m", "n", "s">>,
           <<"2">>,
           <<"-", "t", "i", "l", "e", "-", "r", "o", "w", "s">>, <<"1">>,
           <<"-", "t", "h", "r", "e", "a", "d", "s">>, <<"8">> >>)

\* a bitrate handling in which cbr sets the target only
BitrateArgsTargetOnly(bitrate) ==
    IF HasSuffix(bitrate, <<"c", "r", "f">>)
    THEN <<crfFlag, TrimSuffix(bitrate, <<"c", "r", "f">>)>>
    ELSE IF HasSuffix(bitrate, <<"c", "b", "r">>)
    THEN <<bvFlag, TrimSuffix(bitrate, <<"c", "b", "r">>) \o <<"k">> >>
    ELSE IF HasSuffix(bitrate, <<"v", "b", "r">>)
    THEN <<bvFlag, TrimSuffix(bitrate, <<"v", "b", "r">>) \o <<"k">> >>
    ELSE << >>

\* // Bitrate handling
BitrateArgs(bitrate) ==
    IF HasSuffix(bitrate, <<"c", "r", "f">>)
    THEN <<crfFlag, TrimSuffix(bitrate, <<"c", "r", "f">>)>>
    ELSE IF HasSuffix(bitrate, <<"c", "b", "r">>)
    THEN LET rate == TrimSuffix(bitrate, <<"c", "b", "r">>) \o <<"k">>
         IN  <<bvFlag, rate, maxrateFlag, rate, bufsizeFlag, rate>>
    ELSE IF HasSuffix(bitrate, <<"v", "b", "r">>)
    THEN <<bvFlag, TrimSuffix(bitrate, <<"v", "b", "r">>) \o <<"k">> >>
    ELSE << >>

\* the positions of an argument
ArgAt(args, flag) == {i \in 1..Len(args) : args[i] = flag}

vfFlag == <<"-", "v", "f">>
scaleEq == <<"s", "c", "a", "l", "e", "=">>
cropEq == <<"c", "r", "o", "p", "=">>
forceIncrease ==
    <<"f", "o", "r", "c", "e", "_", "o", "r", "i", "g", "i", "n", "a", "l", "_",
      "a", "s", "p", "e", "c", "t", "_", "r", "a", "t", "i", "o", "=", "i", "n",
      "c", "r", "e", "a", "s", "e">>

\* a filter whose crop takes the height for the width
ScaleCropFilterSwapped(w, h) ==
    scaleEq \o Itoa(w) \o <<":">> \o Itoa(h) \o <<":">> \o forceIncrease
        \o <<",">> \o cropEq \o Itoa(h) \o <<":">> \o Itoa(w)

\* fmt.Sprintf("scale=%d:%d:force_original_aspect_ratio=increase,crop=%d:%d",
\*             spec.Width, spec.Height, spec.Width, spec.Height)
ScaleCropFilter(w, h) ==
    scaleEq \o Itoa(w) \o <<":">> \o Itoa(h) \o <<":">> \o forceIncrease
        \o <<",">> \o cropEq \o Itoa(w) \o <<":">> \o Itoa(h)

\* the frame sizes of the source clips: smaller and larger than the targets,
\* wider, narrower, portrait, and with sides that divide unevenly
SourceSizes ==
    { [Width |-> 640, Height |-> 480], [Width |-> 3840, Height |-> 2160],
      [Width |-> 1080, Height |-> 1920], [Width |-> 1279, Height |-> 721],
      [Width |-> 2560, Height |-> 1080] }

\* the value of -vf in the arguments
VideoFilter(args) ==
    LET at == ArgAt(args, vfFlag)
    IN  IF at = {} THEN EmptyString ELSE args[(CHOOSE i \in at : TRUE) + 1]

\* a * b / c rounded to the nearest integer
Rescale(a, b, c) == (2 * a * b + c) \div (2 * c)

Max(a, b) == IF a >= b THEN a ELSE b

\* the scale filter: to w:h exactly, or with force_original_aspect_ratio=
\* increase to the smallest size of the source's aspect ratio covering w:h
ScaleFilter(options, in) ==
    LET w == Atoi(options[1]).val
        h == Atoi(options[2]).val
    IN  IF Len(options) >= 3 /\ options[3] = forceIncrease
        THEN [Width  |-> Max(w, Rescale(h, in.Width, in.Height)),
              Height |-> Max(h, Rescale(w, in.Height, in.Width))]
        ELSE [Width |-> w, Height |-> h]

\* the crop filter: the centre w:h of the frame; a frame smaller than w:h
\* is refused
CropFilter(options, in) ==
    LET w == Atoi(options[1]).val
        h == Atoi(options[2]).val
    IN  IF w <= in.Width /\ h <= in.Height THEN [Width |-> w, Height |-> h]
        ELSE NoSize

\* the filter graph "scale=...,crop=..." applied to a frame
ApplyFilter(filter, in) ==
    LET stages == Split(filter, ",")
        scaled == ScaleFilter(Split(TrimPrefix(stages[1], scaleEq), ":"), in)
    IN  IF Len(stages) = 2 /\ HasPrefix(stages[1], scaleEq)
             /\ HasPrefix(stages[2], cropEq)
        THEN CropFilter(Split(TrimPrefix(stages[2], cropEq), ":"), scaled)
        ELSE NoSize

\* args of exec.CommandContext(ctx, "ffmpeg", args...) in Transcode; the
\* directories of the two paths are left out
TranscodeArgs(s, inputPath) ==
    LET videoCodec == MapLookup(VideoCodecNameMap, s.Codec)
        audioCodec == MapLookup(AudioCodecNameMap, s.AudioCodec)
        scale == ScaleCropFilter(s.Width, s.Height)
    IN  << <<"-", "i">>, inputPath, <<"-", "t">>, Itoa(s.Duration),
           vfFlag, scale >>
        \o (IF videoCodec # none
            THEN <<cvFlag, videoCodec, rFlag, Itoa(s.FPS)>>
                    \o (IF videoCodec \in DOMAIN VideoCodecArgs
                        THEN VideoCodecArgs[videoCodec] ELSE << >>)
            ELSE <<vnFlag>>)
        \o BitrateArgs(s.Bitrate)
        \o (IF audioCodec # none
            THEN << <<"-", "c", ":", "a">>, audioCodec, <<"-", "b", ":", "a">>,
                    Itoa(s.AudioBitrate) \o <<"k">>, <<"-", "a", "c">>, <<"2">> >>
            ELSE << <<"-", "a", "n">> >>)
        \o <<GenerateFilename(s)>>

\* config.ApplyDefaultVideoSpec(inputParams): result is a copy of
\* DefaultVideoSpec, the package variable is read and not written
ApplyDefaults ==
    /\ fsPc = "input"
    /\ fsResolved' = ApplyDefaultVideoSpec(fsInput)
    /\ fsPc' = "resolved"
    /\ UNCHANGED <<defaultSpec, fsInput, fsAgain, fsFilename, fsArgs, fsSource, fsOutput>>
    /\ UNCHANGED notFieldVars

\* config.ApplyDefaultVideoSpec on a spec that is already resolved
ApplyAgain ==
    /\ fsPc = "resolved"
    /\ fsAgain' = ApplyDefaultVideoSpec(fsResolved)
    /\ fsPc' = "again"
    /\ UNCHANGED <<defaultSpec, fsInput, fsResolved, fsFilename, fsArgs, fsSource, fsOutput>>
    /\ UNCHANGED notFieldVars

\* parser.GenerateFilename(&spec) on the spec as handed in
GenerateName ==
    /\ fsPc = "input"
    /\ fsFilename' = GenerateFilename(fsInput)
    /\ fsPc' = "named"
    /\ UNCHANGED <<defaultSpec, fsInput, fsResolved, fsAgain, fsArgs, fsSource, fsOutput>>
    /\ UNCHANGED notFieldVars

\* Transcode builds the arguments of ffmpeg for the resolved spec
BuildArgs ==
    /\ fsPc = "resolved"
    /\ fsArgs' = TranscodeArgs(fsResolved, fsResolved.Name \o <<".">> \o mp4)
    /\ fsPc' = "args"
    /\ UNCHANGED <<defaultSpec, fsInput, fsResolved, fsAgain, fsFilename,
                   fsSource, fsOutput>>
    /\ UNCHANGED notFieldVars

\* ffmpeg runs with the arguments on a source clip of some frame size
RunEncoder ==
    /\ fsPc = "args"
    /\ \E size \in SourceSizes :
          /\ fsSource' = size
          /\ fsOutput' = IF ArgAt(fsArgs, vnFlag) # {} THEN NoSize
                         ELSE ApplyFilter(VideoFilter(fsArgs), size)
    /\ fsPc' = "encoded"
    /\ UNCHANGED <<defaultSpec, fsInput, fsResolved, fsAgain, fsFilename, fsArgs>>
    /\ UNCHANGED notFieldVars

FieldNext ==
    ApplyDefaults \/ ApplyAgain \/ GenerateName \/ BuildArgs \/ RunEncoder

FieldSpec == FieldInit /\ [][FieldNext]_vars

\* the fields of config.VideoSpec
Fields ==
    {"Name", "Width", "Height", "Duration", "Codec", "FPS", "Bitrate",
     "AudioCodec", "AudioBitrate", "Container"}

\* the filename without the dot and the container
BaseName(name, s) ==
    IF s.Container # EmptyString THEN TrimSuffix(name, <<".">> \o s.Container)
    ELSE name

\* the tokens of a base name
TokensOf(base) == IF base = EmptyString THEN << >> ELSE Split(base, "_")

\* the eight tokens in their order, each with whether its field is set
TokenSlots(s) ==
    << [token |-> s.Name, set |-> s.Name # EmptyString],
       [token |-> s.Codec, set |-> s.Codec # EmptyString],
       [token |-> NatString(s.Width) \o <<"x">> \o NatString(s.Height),
        set |-> s.Width > 0 /\ s.Height > 0 /\ s.Codec # novideo],
       [token |-> NatString(s.FPS) \o <<"f", "p", "s">>,
        set |-> s.FPS > 0 /\ s.Codec # novideo],
       [token |-> NatString(s.Duration) \o <<"s">>, set |-> s.Duration > 0],
       [token |-> s.Bitrate,
        set |-> s.Bitrate # EmptyString /\ s.Codec # novideo],
       [token |-> s.AudioCodec, set |-> s.AudioCodec # EmptyString],
       [token |-> NatString(s.AudioBitrate) \o <<"k", "b", "p", "s">>,
        set |-> s.AudioBitrate > 0 /\ s.AudioCodec # noaudio] >>

IsSet(slot) == slot.set

\* C25: GenerateFilename emits only the non-empty fields, in the order name,
\* video codec, WxH, fps, duration, bitrate, audio codec, audio bitrate, joined
\* by single underscores; with novideo no WxH, fps or bitrate token, with
\* noaudio no kbps token; never a leading, trailing or doubled underscore.
C25_FilenameTokens ==
    fsPc = "named" =>
        LET base   == BaseName(fsFilename, fsInput)
            tokens == TokensOf(base)
            slots  == SelectSeq(TokenSlots(fsInput), IsSet)
        IN  /\ tokens = [i \in 1..Len(slots) |-> slots[i].token]
            /\ \A i \in 1..Len(tokens) : tokens[i] # EmptyString
            /\ fsInput.Codec = novideo =>
                  \A i \in 1..Len(tokens) :
                      /\ ~resolutionRegex(tokens[i])
                      /\ ~HasSuffix(tokens[i], <<"f", "p", "s">>)
                      /\ ~(crfRegex(tokens[i]) \/ cbrRegex(tokens[i])
                             \/ vbrRegex(tokens[i]))
            /\ fsInput.AudioCodec = noaudio =>
                  \A i \in 1..Len(tokens) : ~audioBitrateRegex(tokens[i])
            /\ base # EmptyString => base[1] # "_" /\ base[Len(base)] # "_"
            /\ \A i \in 1..(Len(base) - 1) : ~(base[i] = "_" /\ base[i + 1] = "_")

C25_Witness ==
    /\ fsPc = "named"
    /\ fsInput.Codec = novideo
    /\ fsInput.Width = 1920 /\ fsInput.FPS = 24
    /\ fsInput.Bitrate = <<"2", "8", "c", "r", "f">>
    /\ fsFilename = novideo \o <<"_", "6", "0", "s", "_">> \o opus
                       \o <<"_", "9", "6", "k", "b", "p", "s">>

\* the flag occurs once and the value that follows it is the given one
ArgOnce(args, flag, value) ==
    /\ Cardinality(ArgAt(args, flag)) = 1
    /\ \A i \in ArgAt(args, flag) : i < Len(args) /\ args[i + 1] = value

\* C27: bitrate dispatch -- for an enabled video codec <n>crf adds exactly
\* -crf n; <n>cbr adds -b:v, -maxrate and -bufsize, all nk; <n>vbr adds only
\* -b:v nk; exactly one of the three groups is in the encoder arguments.
C27_BitrateDispatch ==
    (fsPc = "args" /\ fsResolved.Codec # novideo) =>
        LET b == fsResolved.Bitrate
        IN  /\ crfRegex(b) =>
                  /\ ArgOnce(fsArgs, crfFlag, TrimSuffix(b, <<"c", "r", "f">>))
                  /\ ArgAt(fsArgs, bvFlag) = {}
                  /\ ArgAt(fsArgs, maxrateFlag) = {}
                  /\ ArgAt(fsArgs, bufsizeFlag) = {}
            /\ cbrRegex(b) =>
                  LET rate == TrimSuffix(b, <<"c", "b", "r">>) \o <<"k">>
                  IN  /\ ArgOnce(fsArgs, bvFlag, rate)
                      /\ ArgOnce(fsArgs, maxrateFlag, rate)
                      /\ ArgOnce(fsArgs, bufsizeFlag, rate)
                      /\ ArgAt(fsArgs, crfFlag) = {}
            /\ vbrRegex(b) =>
                  /\ ArgOnce(fsArgs, bvFlag,
                             TrimSuffix(b, <<"v", "b", "r">>) \o <<"k">>)
                  /\ ArgAt(fsArgs, crfFlag) = {}
                  /\ ArgAt(fsArgs, maxrateFlag) = {}
                  /\ ArgAt(fsArgs, bufsizeFlag) = {}
            /\ crfRegex(b) \/ cbrRegex(b) \/ vbrRegex(b)

C27_Witness ==
    /\ fsPc = "args"
    /\ fsResolved.Codec = vp9
    /\ fsResolved.Bitrate = <<"3", "0", "0", "0", "c", "b", "r">>
    /\ ArgOnce(fsArgs, maxrateFlag, <<"3", "0", "0", "0", "k">>)

\* C28: when the resolved spec has the video codec novideo, the encoder
\* arguments hold -vn and none of -c:v, -r, -crf, -b:v, -maxrate, -bufsize,
\* whatever Bitrate holds after defaulting.
C28_NoVideoArgs ==
    (fsPc = "args" /\ fsResolved.Codec = novideo) =>
        /\ ArgAt(fsArgs, vnFlag) # {}
        /\ \A flag \in {cvFlag, rFlag, crfFlag, bvFlag, maxrateFlag, bufsizeFlag} :
              ArgAt(fsArgs, flag) = {}

\* C30: ApplyDefaultVideoSpec returns, field by field, the input's value when
\* it is non-zero or non-empty and the default's value otherwise; every field
\* of the result is populated, a second application changes nothing, and
\* DefaultVideoSpec is never modified.
C30_DefaultsFieldByField ==
    /\ fsPc \in {"resolved", "again", "args"} =>
          \A f \in Fields :
              /\ fsResolved[f] = IF fsInput[f] # VideoSpec[f] THEN fsInput[f]
                                 ELSE DefaultVideoSpec[f]
              /\ fsResolved[f] # VideoSpec[f]
    /\ fsPc = "again" => fsAgain = fsResolved
    /\ defaultSpec = DefaultVideoSpec

C30_Witness ==
    /\ fsPc = "again"
    /\ fsInput.Bitrate = EmptyString /\ fsInput.Codec = vp9
    /\ fsInput.Width = 0 /\ fsInput.Height = 1080
    /\ fsAgain.Bitrate = <<"2", "5", "c", "r", "f">>
    /\ fsAgain.Codec = vp9
    /\ fsAgain.Width = 1280 /\ fsAgain.Height = 1080

\* C33: scale-crop invariant -- for every target W:H and every source size
\* and aspect ratio, scaling so that both dimensions cover the target and then
\* cropping gives an output of exactly W by H; the filter Transcode passes is
\* scale=W:H:force_original_aspect_ratio=increase,crop=W:H with the spec's
\* own width and height.
C33_ScaleCropExact ==
    (fsPc = "encoded" /\ fsResolved.Codec # novideo) =>
        /\ ArgOnce(fsArgs, vfFlag,
                   scaleEq \o NatString(fsResolved.Width) \o <<":">>
                       \o NatString(fsResolved.Height) \o <<":">> \o forceIncrease
                       \o <<",">> \o cropEq \o NatString(fsResolved.Width)
                       \o <<":">> \o NatString(fsResolved.Height))
        /\ fsOutput.Width = fsResolved.Width
        /\ fsOutput.Height = fsResolved.Height

\* a 640x480 source scaled up and cropped to 1920x720
C33_Witness ==
    /\ fsPc = "encoded"
    /\ fsResolved.Codec = vp9
    /\ fsSource = [Width |-> 640, Height |-> 480]
    /\ fsResolved.Width = 1920 /\ fsResolved.Height = 720
    /\ fsOutput = [Width |-> 1920, Height |-> 720]

-----------------------------------------------------------------------------
(* The parser pipeline: render a spec, parse the result, render again      *)

\* fully resolved specifications: every field populated
ResolvedSpecs ==
    { [Name |-> n, Width |-> r.Width, Height |-> r.Height, Duration |-> d,
       Codec |-> c, FPS |-> f, Bitrate |-> b, AudioCodec |-> a,
       AudioBitrate |-> ab, Container |-> k] :
         n \in getSourceFileNames,
         r \in {x \in Resolutions : x.Width <= 1280} \cup
               {[name |-> EmptyString, Width |-> 400, Height |-> 300]},
         d \in {5, 20}, c \in ValidVideoCodecs, f \in {30},
         b \in {<<"2", "5", "c", "r", "f">>, <<"3", "0", "0", "0", "c", "b", "r">>,
                <<"9", "0", "0", "v", "b", "r">>},
         a \in ValidAudioCodecs, ab \in {96}, k \in ValidContainers }

ParserInit ==
    /\ ServiceIdle
    /\ HLSIdle
    /\ FindIdle
    /\ RequestIdle
    /\ PregenIdle /\ TierIdle
    /\ TokenIdle /\ FieldIdle /\ StreamIdle /\ StartupIdle
    /\ spec \in ResolvedSpecs
    /\ filename = EmptyString
    /\ parsed = NoResult
    /\ regenerated = EmptyString
    /\ pc = "spec"

Generate ==
    /\ pc = "spec"
    /\ filename' = GenerateFilename(spec)
    /\ pc' = "generated"
    /\ UNCHANGED <<spec, parsed, regenerated>>
    /\ UNCHANGED notParserVars

Parse ==
    /\ pc = "generated"
    /\ parsed' = ParseFilename(filename)
    /\ pc' = "parsed"
    /\ UNCHANGED <<spec, filename, regenerated>>
    /\ UNCHANGED notParserVars

Regenerate ==
    /\ pc = "parsed"
    /\ ~parsed.err
    /\ regenerated' = GenerateFilename(parsed.spec)
    /\ pc' = "regenerated"
    /\ UNCHANGED <<spec, filename, parsed>>
    /\ UNCHANGED notParserVars

ParserNext == Generate \/ Parse \/ Regenerate

ParserSpec == ParserInit /\ [][ParserNext]_vars

\* C1: round-trip law -- for every fully-resolved spec whose Name is a known
\* source clip, parsing the rendered filename succeeds and rendering the
\* parsed spec gives the same filename again.
C1_RoundTrip ==
    /\ (pc \in {"parsed", "regenerated"} => ~parsed.err)
    /\ (pc = "regenerated" => regenerated = filename)

====
